---------------------------- MODULE Spec2Model ----------------------------
(***************************************************************************)
(* Model of the autonomous mode of teddy-codes                             *)
(* (src/core/modes/autonomous.ts): content extraction, plan detection and  *)
(* parsing, the step execution engine and the verification retry loop.     *)
(*                                                                         *)
(* Texts are TLC strings.  Positions follow JavaScript: 0-based, end       *)
(* exclusive, -1 for "not found".  The texts of the model are ASCII and    *)
(* contain no carriage return; white space is space, tab and newline.      *)
(*                                                                         *)
(* A value that the source binds to a local and reads several times is     *)
(* a parameter of an auxiliary operator here, so that it is written, and   *)
(* computed, once.                                                         *)
(***************************************************************************)
EXTENDS Integers, Sequences, FiniteSets, TLC

(***************************************************************************)
(* JavaScript string primitives used by the source.                        *)
(***************************************************************************)
undefined == "\f<undefined>"

\* the backquote character and the markdown code fence
BQ == SubSeq("`'", 1, 1)
FENCE == SubSeq("```'", 1, 3)

UPPER == "ABCDEFGHIJKLMNOPQRSTUVWXYZ"
LOWER == "abcdefghijklmnopqrstuvwxyz"
DIGITS == "0123456789"
WORD == "ABCDEFGHIJKLMNOPQRSTUVWXYZabcdefghijklmnopqrstuvwxyz0123456789_"

charAt(s, i) == IF i >= 0 /\ i < Len(s) THEN SubSeq(s, i + 1, i + 1) ELSE ""

\* the least / greatest position of lo..hi that satisfies P, -1 when none does
First(lo, hi, P(_)) ==
    IF \E i \in lo..hi : P(i)
    THEN CHOOSE i \in lo..hi : P(i) /\ \A j \in lo..(i - 1) : ~P(j)
    ELSE -1

Last(lo, hi, P(_)) ==
    IF \E i \in lo..hi : P(i)
    THEN CHOOSE i \in lo..hi : P(i) /\ \A j \in (i + 1)..hi : ~P(j)
    ELSE -1

Min(a, b) == IF a < b THEN a ELSE b
Max(a, b) == IF a > b THEN a ELSE b

\* a position brought into 0..len
clamp(n, len) == IF n < 0 THEN 0 ELSE IF n > len THEN len ELSE n

substring(s, lo, hi) == IF lo >= hi THEN "" ELSE SubSeq(s, lo + 1, hi)

\* String.prototype.slice(a, b) for non-negative a, b
slice(s, a, b) == substring(s, clamp(a, Len(s)), clamp(b, Len(s)))

sliceFrom(s, a) == slice(s, a, Len(s))

isOneOf(c, class) == c # "" /\ \E i \in 1..Len(class) : SubSeq(class, i, i) = c

isSpace(c) == c = " " \/ c = "\t" \/ c = "\n"
isDigit(c) == isOneOf(c, DIGITS)
isUpper(c) == isOneOf(c, UPPER)
isLower(c) == isOneOf(c, LOWER)
\* \w
isWord(c) == isOneOf(c, WORD)

lowerChar(c) ==
    IF isUpper(c)
    THEN SubSeq(LOWER, CHOOSE k \in 1..Len(UPPER) : SubSeq(UPPER, k, k) = c,
                       CHOOSE k \in 1..Len(UPPER) : SubSeq(UPPER, k, k) = c)
    ELSE c

RECURSIVE toLowerCase(_)
toLowerCase(s) ==
    IF Len(s) <= 1 THEN lowerChar(s)
    ELSE toLowerCase(SubSeq(s, 1, Len(s) \div 2))
           \o toLowerCase(SubSeq(s, Len(s) \div 2 + 1, Len(s)))

startsWithAt(s, sub, i) ==
    /\ i >= 0
    /\ i + Len(sub) <= Len(s)
    /\ SubSeq(s, i + 1, i + Len(sub)) = sub

startsWith(s, sub) == startsWithAt(s, sub, 0)
endsWith(s, sub) == startsWithAt(s, sub, Len(s) - Len(sub))

indexOfFrom(s, sub, from) ==
    First(Max(from, 0), Len(s) - Len(sub), LAMBDA i : startsWithAt(s, sub, i))

indexOf(s, sub) == indexOfFrom(s, sub, 0)
includes(s, sub) == indexOf(s, sub) # -1

\* a position, or another one when the first is -1
orElse(a, b) == IF a # -1 THEN a ELSE b

\* end of the maximal run of characters satisfying C that starts at i
skipWhile(s, i, C(_)) ==
    IF i < 0 \/ i >= Len(s) THEN i
    ELSE First(i, Len(s), LAMBDA j : ~C(charAt(s, j)))

skipSpaces(s, i) == skipWhile(s, i, isSpace)
skipDigits(s, i) == skipWhile(s, i, isDigit)
skipWord(s, i) == skipWhile(s, i, isWord)
isNonSpace(c) == c # "" /\ ~isSpace(c)
skipNonSpaces(s, i) == skipWhile(s, i, isNonSpace)
isColonOrSpace(c) == isSpace(c) \/ c = ":"
skipColonsAndSpaces(s, i) == skipWhile(s, i, isColonOrSpace)

trimStart(s) == sliceFrom(s, skipSpaces(s, 0))

trimEnd(s) ==
    slice(s, 0, Last(0, Len(s) - 1, LAMBDA i : ~isSpace(charAt(s, i))) + 1)

trim(s) == trimEnd(trimStart(s))

\* Array.prototype.join(sep)
RECURSIVE join(_, _)
join(texts, sep) ==
    IF Len(texts) = 0 THEN ""
    ELSE IF Len(texts) = 1 THEN texts[1]
    ELSE texts[1] \o sep \o join(Tail(texts), sep)

\* String.prototype.split(sep) for a non-empty separator
RECURSIVE split(_, _)
splitAt(s, sep, i) ==
    IF i = -1 THEN <<s>>
    ELSE <<slice(s, 0, i)>> \o split(sliceFrom(s, i + Len(sep)), sep)

split(s, sep) == splitAt(s, sep, indexOf(s, sep))

(***************************************************************************)
(* cleanCodeContent: strip a markdown fence wrapper from an LLM reply.     *)
(***************************************************************************)
\* lines 1355-1361
stripOpeningFence(cleaned, firstNewline) ==
    IF startsWith(cleaned, FENCE) /\ firstNewline # -1
    THEN sliceFrom(cleaned, firstNewline + 1)
    ELSE cleaned

\* lines 1363-1365
stripClosingFence(cleaned) ==
    IF endsWith(cleaned, FENCE)
    THEN trimEnd(slice(cleaned, 0, Len(cleaned) - 3))
    ELSE cleaned

openingFenceStripped(cleaned) ==
    stripOpeningFence(cleaned, indexOf(cleaned, "\n"))

cleanCodeContent(content) ==
    stripClosingFence(openingFenceStripped(trim(content)))

(***************************************************************************)
(* PlanStep values.  An absent optional field holds undefined.             *)
(***************************************************************************)
PlanStep(id, type, target, description, codeBlock) ==
    [id |-> id, type |-> type, target |-> target,
     description |-> description, codeBlock |-> codeBlock]

\* JavaScript truthiness of an optional string: !x holds of undefined and ""
falsy(x) == x = undefined \/ x = ""

(***************************************************************************)
(* parseSimplePlanSteps: the machine format                                *)
(*   N. VERB: target | description                                         *)
(***************************************************************************)
SimpleVerbs == <<"create_file", "edit_file", "run_command", "analyze">>

\* a list marker that may follow white space: /^\s*(\d+\.|-|\*)\s*/
markerEndAfterIndent(line, d) ==
    IF skipDigits(line, skipSpaces(line, 0)) > skipSpaces(line, 0)
         /\ charAt(line, skipDigits(line, skipSpaces(line, 0))) = "."
    THEN skipSpaces(line, skipDigits(line, skipSpaces(line, 0)) + 1)
    ELSE IF charAt(line, skipSpaces(line, 0)) \in {"-", "*"}
    THEN skipSpaces(line, skipSpaces(line, 0) + 1)
    ELSE -1

\* end of the list marker /^\d+\.\s*|^-\s*|^\*\s*/ at the start of the line,
\* -1 when the line starts with none; d is the end of the leading digits
markerEndAfterDigits(line, d) ==
    IF d > 0 /\ charAt(line, d) = "." THEN skipSpaces(line, d + 1)
    ELSE IF charAt(line, 0) = "-" THEN skipSpaces(line, 1)
    ELSE IF charAt(line, 0) = "*" THEN skipSpaces(line, 1)
    ELSE -1

simpleMarkerEnd(line) == markerEndAfterDigits(line, skipDigits(line, 0))

NoLineMatch == [ok |-> FALSE, verb |-> "", rest |-> ""]

\* :\s*(.+) with the colon before m and the white space ending at n
simpleRest(line, verb, m, n) ==
    IF n < Len(line)
    THEN [ok |-> TRUE, verb |-> verb, rest |-> sliceFrom(line, n)]
    ELSE IF n > m
    \* (.+) needs one character: \s* gives the last blank back
    THEN [ok |-> TRUE, verb |-> verb, rest |-> sliceFrom(line, n - 1)]
    ELSE NoLineMatch

\* (VERB):\s*(.+) at k, case-insensitive, e the end of the verb
simpleVerbAt(line, verb, k, e) ==
    IF k # -1 /\ toLowerCase(slice(line, k, e)) = verb /\ charAt(line, e) = ":"
    THEN simpleRest(line, verb, e + 1, skipSpaces(line, e + 1))
    ELSE NoLineMatch

simpleVerbMatch(line, v, k) ==
    simpleVerbAt(line, SimpleVerbs[v], k, k + Len(SimpleVerbs[v]))

firstVerbMatch(line, k, hits) ==
    IF hits = {} THEN NoLineMatch
    ELSE simpleVerbMatch(line, CHOOSE v \in hits : TRUE, k)

simpleLineMatchFrom(line, k) ==
    firstVerbMatch(line, k, {v \in 1..Len(SimpleVerbs) :
                               simpleVerbMatch(line, v, k).ok})

\* line.match(/(?:^\d+\.\s*|^-\s*|^\*\s*)(CREATE_FILE|EDIT_FILE|RUN_COMMAND|ANALYZE):\s*(.+)/i)
simpleLineMatch(line) == simpleLineMatchFrom(line, simpleMarkerEnd(line))

simpleStepType(typeStr) ==
    IF includes(typeStr, "create") THEN "create_file"
    ELSE IF includes(typeStr, "edit") THEN "edit_file"
    ELSE IF includes(typeStr, "run") THEN "run_command"
    ELSE "analyze"

\* position of the leftmost match of /\s+[A-Z].*$/, -1 when there is none
descriptionArtifactFrom(t, from) ==
    First(from, Len(t) - 1, LAMBDA i :
        isSpace(charAt(t, i)) /\ isUpper(charAt(t, skipSpaces(t, i))))

cutAt(t, i) == IF i = -1 THEN t ELSE slice(t, 0, i)

\* target.replace(/\s+[A-Z].*$/, "").trim()
stripDescriptionArtifact(t) == trim(cutAt(t, descriptionArtifactFrom(t, 0)))

stripLeadingBacktick(t) == IF startsWith(t, BQ) THEN sliceFrom(t, 1) ELSE t
stripTrailingBacktick(t) ==
    IF endsWith(t, BQ) THEN slice(t, 0, Len(t) - 1) ELSE t

\* target.replace(/^`|`$/g, "")
stripBackticks(t) == stripTrailingBacktick(stripLeadingBacktick(t))

\* parts[0], parts[1] || parts[0]
targetOfParts(p0, p1) ==
    [target |-> p0, description |-> IF p1 = "" THEN p0 ELSE p1]

targetOfPipe(parts) == targetOfParts(trim(parts[1]), trim(parts[2]))

targetOfDash(rest, dashIdx) ==
    [target |-> trim(slice(rest, 0, dashIdx)),
     description |-> trim(sliceFrom(rest, dashIdx + 3))]

targetOfWhole(trimmed) == [target |-> trimmed, description |-> trimmed]

\* a split that knows the pipe alone
splitOnPipeOnly(rest) ==
    IF includes(rest, "|") THEN targetOfPipe(split(rest, "|"))
    ELSE targetOfWhole(trim(rest))

\* lines 480-496
simpleTargetAndDescription(rest) ==
    IF includes(rest, "|") THEN targetOfPipe(split(rest, "|"))
    ELSE IF includes(rest, " - ") THEN targetOfDash(rest, indexOf(rest, " - "))
    ELSE targetOfWhole(trim(rest))

simpleStep(stepNum, verb, td) ==
    PlanStep(stepNum, simpleStepType(verb),
             stripBackticks(stripDescriptionArtifact(td.target)),
             td.description, undefined)

isLineMatch(m) == m.ok

\* the matching lines in order, the n-th of them being step n
numberedSimpleSteps(matches) ==
    [n \in 1..Len(matches) |->
       simpleStep(n, matches[n].verb,
                  simpleTargetAndDescription(matches[n].rest))]

simpleStepsOfLines(lines) ==
    numberedSimpleSteps(
        SelectSeq([n \in 1..Len(lines) |-> simpleLineMatch(lines[n])],
                  isLineMatch))

parseSimplePlanSteps(content) == simpleStepsOfLines(split(content, "\n"))

(***************************************************************************)
(* wantsExecution: the execution-intent phrases.                           *)
(***************************************************************************)
\* \b between positions i-1 and i
wordBoundary(s, i) == isWord(charAt(s, i - 1)) # isWord(charAt(s, i))

\* the literal word w between two word boundaries, starting at i
wordAt(s, w, i) ==
    /\ startsWithAt(s, w, i)
    /\ wordBoundary(s, i)
    /\ wordBoundary(s, i + Len(w))

\* end of /\s+/ from i, -1 when no white space is there
spaces1(s, i) == IF isSpace(charAt(s, i)) THEN skipSpaces(s, i) ELSE -1

\* end of /w\s+/ at i, -1 when it does not match
afterWord(s, w, i) ==
    IF startsWithAt(s, w, i) THEN spaces1(s, i + Len(w)) ELSE -1

\* end of /\bw\s+/ at i
verbAt(s, w, i) == IF wordBoundary(s, i) THEN afterWord(s, w, i) ELSE -1

\* /w\b/ at i
wordEndsAt(s, w, i) == startsWithAt(s, w, i) /\ wordBoundary(s, i + Len(w))

\* end of the optional group /(w\s+)?/ from i: with the group when it
\* matches, else i
optWord(s, w, i) == orElse(afterWord(s, w, i), i)

\* /steps?\b/ at i
stepsWord(s, i) ==
    /\ startsWithAt(s, "step", i)
    /\ \/ wordBoundary(s, i + 4)
       \/ charAt(s, i + 4) = "s" /\ wordBoundary(s, i + 5)

\* /(o2\s+)?steps?\b/ at b, the group taken or skipped
stepsAfterOpt(s, o2, b) == stepsWord(s, optWord(s, o2, b)) \/ stepsWord(s, b)

\* /(o1\s+)?(o2\s+)?steps?\b/ at a: every optional group either taken or
\* skipped, as the backtracking matcher tries them
stepsAfter(s, o1, o2, a) ==
    a # -1 /\ (stepsAfterOpt(s, o2, optWord(s, o1, a)) \/ stepsAfterOpt(s, o2, a))

\* /\bverb\s+(o1\s+)?(o2\s+)?steps?\b/ at i
verbSteps(s, verb, o1, o2, i) == stepsAfter(s, o1, o2, verbAt(s, verb, i))

\* /(this|the)\s+plan\b/ at a
thisPlan(s, a) ==
    \E d \in {"this", "the"} : wordEndsAt(s, "plan", afterWord(s, d, a))

\* /(the\s+)?implementation\b/ at a
theImplementation(s, a) ==
    \/ wordEndsAt(s, "implementation", a)
    \/ wordEndsAt(s, "implementation", afterWord(s, "the", a))

executionPhraseAt(lower, i) ==
    \/ wordAt(lower, "execute", i)
    \/ wordAt(lower, "implement", i)
    \* /\bfix\s+the\s+(next\s+)?(immediate\s+)?steps?\b/
    \/ stepsAfter(lower, "next", "immediate",
                  afterWord(lower, "the", verbAt(lower, "fix", i)))
    \* /\bdo\s+(the\s+)?(next\s+)?steps?\b/
    \/ verbSteps(lower, "do", "the", "next", i)
    \* /\brun\s+(the\s+)?steps?\b/
    \/ verbSteps(lower, "run", "the", "the", i)
    \* /\bcarry\s+out\b/
    \/ wordEndsAt(lower, "out", verbAt(lower, "carry", i))
    \* /\bfollow\s+(this|the)\s+plan\b/
    \/ thisPlan(lower, verbAt(lower, "follow", i))
    \* /\bapply\s+(these\s+)?steps?\b/
    \/ verbSteps(lower, "apply", "these", "these", i)
    \* /\bstart\s+(the\s+)?implementation\b/
    \/ theImplementation(lower, verbAt(lower, "start", i))
    \* /\bperform\s+(the\s+)?steps?\b/
    \/ verbSteps(lower, "perform", "the", "the", i)

anyExecutionPhrase(lower) == \E i \in 0..Len(lower) : executionPhraseAt(lower, i)

wantsExecution(instruction) == anyExecutionPhrase(toLowerCase(instruction))

(***************************************************************************)
(* Keyword tests on step titles.                                           *)
(***************************************************************************)
actionVerbs ==
    {"add", "insert", "create", "modify", "update", "change", "edit",
     "implement", "fix", "remove", "delete", "replace", "refactor"}

includesAny(lower, words) == \E w \in words : includes(lower, w)

hasActionVerb(title) == includesAny(toLowerCase(title), actionVerbs)

modifyKeywords ==
    {"modify", "update", "change", "edit", "fix", "replace", "refactor",
     "remove", "delete", "rename", "move", "convert", "transform", "rewrite"}

\* a test that knows the one word "modify"
isModifyWordOnly(description) == includes(toLowerCase(description), "modify")

\* lines 409-429
isModificationStep(description) ==
    includesAny(toLowerCase(description), modifyKeywords)

(***************************************************************************)
(* Regular-expression fragments shared by the teddy-spec parser.  A        *)
(* matcher takes the text and a start position and gives the end of the    *)
(* match (or a record with the captured groups), -1 / ok = FALSE when the  *)
(* fragment does not match there.  Case-insensitive literals are compared  *)
(* on the lower-cased text lc, captures are cut from the text s itself.    *)
(***************************************************************************)
\* end of the line that holds position i: the next "\n" or the end of s
lineEnd(s, i) == orElse(indexOfFrom(s, "\n", i), Len(s))

\* (\S+\.\w+) at k: \S+ takes the run of non-blanks and gives back down to
\* its last dot that a word character follows
lastDotBefore(s, k, r) ==
    Last(k + 1, r, LAMBDA d : charAt(s, d) = "." /\ isWord(charAt(s, d + 1)))

dotWordEnd(s, d) == IF d = -1 THEN -1 ELSE skipWord(s, d + 1)

pathTokenEnd(s, k) ==
    dotWordEnd(s, lastDotBefore(s, k, skipNonSpaces(s, k) - 1))

NoPath == [ok |-> FALSE, path |-> "", end |-> -1]

pathFrom(s, c, t) ==
    IF t # -1 THEN [ok |-> TRUE, path |-> slice(s, c, t), end |-> t]
    ELSE NoPath

\* (\S+\.\w+) at c
pathTokenAt(s, c) == pathFrom(s, c, pathTokenEnd(s, c))

\* `([^`]+)` at c, e the next backquote after c, else (\S+\.\w+)
quotedOrPath(s, c, e) ==
    IF charAt(s, c) = BQ /\ e > c + 1
    THEN [ok |-> TRUE, path |-> slice(s, c + 1, e), end |-> e + 1]
    ELSE pathTokenAt(s, c)

\* (?:`([^`]+)`|(\S+\.\w+)) at c: the captured path and the end
pathOrQuoted(s, c) == quotedOrPath(s, c, indexOfFrom(s, BQ, c + 1))

\* (?:\s*File)?:\*\* after **Target, which ends at a; j is past the blanks
targetMarkerTail(lc, a, j) ==
    IF startsWithAt(lc, "file:**", j) THEN j + 7
    ELSE IF startsWithAt(lc, ":**", a) THEN a + 3
    ELSE -1

\* /\*\*Target(?:\s*File)?:\*\*/i at i: the end, or -1
targetMarkerEnd(lc, i) ==
    IF startsWithAt(lc, "**target", i)
    THEN targetMarkerTail(lc, i + 8, skipSpaces(lc, i + 8))
    ELSE -1

pathAfterMarker(s, b) ==
    IF b = -1 THEN NoPath ELSE pathOrQuoted(s, skipSpaces(s, b))

\* /\*\*Target(?:\s*File)?:\*\*\s*(?:`([^`]+)`|(\S+\.\w+))/i at i
targetAt(s, lc, i) == pathAfterMarker(s, targetMarkerEnd(lc, i))

NoTarget == [ok |-> FALSE, index |-> -1, path |-> "", end |-> -1]

targetMatch(m, i) ==
    [ok |-> TRUE, index |-> i, path |-> m.path, end |-> m.end]

targetFoundAt(s, lc, i) ==
    IF i = -1 THEN NoTarget ELSE targetMatch(targetAt(s, lc, i), i)

\* leftmost match of the target pattern at or after from
findTarget(s, lc, from) ==
    targetFoundAt(s, lc,
        First(from, Len(s) - 1, LAMBDA j : targetAt(s, lc, j).ok))

NoFence == [ok |-> FALSE, index |-> -1, lang |-> "", body |-> "", end |-> -1]

\* the block opened at i whose language word ends at w and whose closing
\* fence is at close
fenceBody(s, i, w, close) ==
    IF close # -1
    THEN [ok |-> TRUE, index |-> i, lang |-> slice(s, i + 3, w),
          body |-> slice(s, w + 1, close), end |-> close + 3]
    ELSE NoFence

fenceLang(s, i, w) ==
    IF charAt(s, w) = "\n" THEN fenceBody(s, i, w, indexOfFrom(s, FENCE, w + 1))
    ELSE NoFence

\* /```(\w*)\n([\s\S]*?)```/ at i
fenceAt(s, i) ==
    IF startsWithAt(s, FENCE, i) THEN fenceLang(s, i, skipWord(s, i + 3))
    ELSE NoFence

\* leftmost fenced block at or after from
findFence(s, from) ==
    fenceAt(s, First(from, Len(s) - 1, LAMBDA i : fenceAt(s, i).ok))

\* [...s.matchAll(/```(\w*)\n([\s\S]*?)```/g)]
RECURSIVE allFences(_, _)
fencesFrom(s, m) == IF m.ok THEN <<m>> \o allFences(s, m.end) ELSE <<>>

allFences(s, i) == fencesFrom(s, findFence(s, i))

isShellLang(lang) == lang = "bash" \/ lang = "sh" \/ lang = "shell"

(***************************************************************************)
(* inferTargetFromCode                                                     *)
(***************************************************************************)
wordStartAt(code, a) == IF isWord(charAt(code, a)) THEN a ELSE -1

\* /kw\s+(\w+)/ at i: the start of the captured word, or -1
keywordWordStart(code, kw, i) ==
    IF startsWithAt(code, kw, i)
    THEN wordStartAt(code, spaces1(code, i + Len(kw)))
    ELSE -1

keywordStarts(code, kws, i) ==
    {keywordWordStart(code, kw, i) : kw \in kws} \ {-1}

wordFrom(code, a) == slice(code, a, skipWord(code, a))

capturedWordAt(code, kws, i) ==
    IF i = -1 THEN undefined
    ELSE wordFrom(code, CHOOSE a \in keywordStarts(code, kws, i) : TRUE)

\* code.match(/(?:kw1|kw2)\s+(\w+)/): the captured word of the leftmost
\* match, undefined when there is none
wordAfterKeyword(code, kws, from) ==
    capturedWordAt(code, kws,
        First(from, Len(code) - 1, LAMBDA j : keywordStarts(code, kws, j) # {}))

\* /^(?:\/\/|#|--)/
commentMarkerEnd(code) ==
    IF startsWith(code, "//") \/ startsWith(code, "--") THEN 2
    ELSE IF startsWith(code, "#") THEN 1
    ELSE -1

\* the ends of the optional group (?:file:|in:?)? at a, in the order the
\* matcher tries them
groupEnds(lc, a) ==
    (IF startsWithAt(lc, "file:", a) THEN <<a + 5>> ELSE <<>>)
      \o (IF startsWithAt(lc, "in:", a) THEN <<a + 3>> ELSE <<>>)
      \o (IF startsWithAt(lc, "in", a) THEN <<a + 2>> ELSE <<>>)
      \o <<a>>

\* \s*(\S+\.\w+) at g
pathAfterSpaces(s, g) == pathTokenAt(s, skipSpaces(s, g))

firstPath(code, ends, good) ==
    IF good = {} THEN undefined
    ELSE pathAfterSpaces(code,
             ends[CHOOSE n \in good : \A o \in good : n <= o]).path

pathAfterGroup(code, ends) ==
    firstPath(code, ends,
              {n \in 1..Len(ends) : pathAfterSpaces(code, ends[n]).ok})

commentPathFrom(code, lc, a0) ==
    IF a0 = -1 THEN undefined
    ELSE pathAfterGroup(code, groupEnds(lc, skipSpaces(code, a0)))

\* code.match(/^(?:\/\/|#|--)\s*(?:file:|in:?)?\s*(\S+\.\w+)/i)
commentPath(code) ==
    commentPathFrom(code, toLowerCase(code), commentMarkerEnd(code))

withSuffix(word, suffix) ==
    IF word # undefined THEN word \o suffix ELSE undefined

\* lines 441-451
inferFromDeclaration(code, lang) ==
    IF lang = "rust" \/ lang = "rs"
    THEN withSuffix(wordAfterKeyword(code, {"mod"}, 0), ".rs")
    ELSE IF lang = "typescript" \/ lang = "ts"
    THEN withSuffix(wordAfterKeyword(code, {"class", "interface"}, 0), ".ts")
    ELSE undefined

firstDefined(a, b) == IF a # undefined THEN a ELSE b

inferTargetFromCode(code, lang) ==
    firstDefined(commentPath(code), inferFromDeclaration(code, lang))

(***************************************************************************)
(* parseTeddySpecSteps.  The parse state is the step list, the step        *)
(* counter and the processed ranges, threaded through the four patterns.   *)
(***************************************************************************)
isProcessed(processedRanges, pos) ==
    \E n \in 1..Len(processedRanges) :
        pos >= processedRanges[n].start /\ pos < processedRanges[n].end

RECURSIVE Flatten(_)
Flatten(seqs) ==
    IF seqs = <<>> THEN <<>> ELSE Head(seqs) \o Flatten(Tail(seqs))

\* the parse state after a match that gave the steps new, counted count
\* times, and that claims the range start..end
withRange(st, new, count, start, end) ==
    [steps |-> st.steps \o new,
     stepNum |-> st.stepNum + count,
     processedRanges |-> Append(st.processedRanges,
                                [start |-> start, end |-> end])]

modificationOrInsertion(description) ==
    IF isModificationStep(description) THEN "edit_file" ELSE "insert_code"

\* code.split("\n")[0]
firstLine(code) == slice(code, 0, lineEnd(code, 0))

\* /Step\s*\d/i at j
stepDigitAt(lc, j) ==
    startsWithAt(lc, "step", j) /\ isDigit(charAt(lc, skipSpaces(lc, j + 4)))

\* /##\s*Step\s*\d/i, /##\s*Step/i and /##\s*Acceptance/i at q
stepAhead(lc, q) ==
    startsWithAt(lc, "##", q) /\ stepDigitAt(lc, skipSpaces(lc, q + 2))

stepWordAhead(lc, q) ==
    startsWithAt(lc, "##", q) /\ startsWithAt(lc, "step", skipSpaces(lc, q + 2))

acceptanceAhead(lc, q) ==
    /\ startsWithAt(lc, "##", q)
    /\ startsWithAt(lc, "acceptance", skipSpaces(lc, q + 2))

\* end of the lazy ([\s\S]*?) of pattern 1 started at from
stepSectionEnd(lc, from) ==
    First(from, Max(from, Len(lc)), LAMBDA q :
        q >= Len(lc) \/ stepAhead(lc, q) \/ acceptanceAhead(lc, q))

\* start of ([^\n]+)\n after the greedy \s* that ran from m to n: the
\* largest position of m..n that starts a non-empty rest of line which a
\* newline ends; -1 when there is none
titleStart(s, m, n) ==
    Last(m, n, LAMBDA t :
        t < Len(s) /\ charAt(s, t) # "\n" /\ lineEnd(s, t) < Len(s))

NoHeader ==
    [ok |-> FALSE, index |-> -1, title |-> "", content |-> "", end |-> -1]

\* the section headed at i, its title in t..e and its content in e+1..q
stepHeader(s, i, t, e, q) ==
    [ok |-> TRUE, index |-> i, title |-> slice(s, t, e),
     content |-> slice(s, e + 1, q), end |-> q]

stepSectionThen(s, lc, i, t, e) ==
    stepHeader(s, i, t, e, stepSectionEnd(lc, e + 1))

stepTitleThen(s, lc, i, t) ==
    IF t # -1 THEN stepSectionThen(s, lc, i, t, lineEnd(s, t)) ELSE NoHeader

\* (\d+):\s*([^\n]+)\n with the digits in k..d
stepColonThen(s, lc, i, k, d) ==
    IF d > k /\ charAt(s, d) = ":"
    THEN stepTitleThen(s, lc, i, titleStart(s, d + 1, skipSpaces(s, d + 1)))
    ELSE NoHeader

stepWordThen(s, lc, i, j) ==
    IF startsWithAt(lc, "step", j)
    THEN stepColonThen(s, lc, i, skipSpaces(lc, j + 4),
                       skipDigits(lc, skipSpaces(lc, j + 4)))
    ELSE NoHeader

\* /##\s*Step\s*(\d+):\s*([^\n]+)\n([\s\S]*?)(?=##\s*Step\s*\d|##\s*Acceptance|$)/gi at i
stepHeaderAt(s, lc, i) ==
    IF startsWithAt(lc, "##", i)
    THEN stepWordThen(s, lc, i, skipSpaces(lc, i + 2))
    ELSE NoHeader

findStepHeader(s, lc, from) ==
    stepHeaderAt(s, lc,
        First(from, Len(s) - 1, LAMBDA i : stepHeaderAt(s, lc, i).ok))

\* lines 204-219: a block without explicit target
inferredBlockStep(id, title, code, inferredTarget) ==
    IF ~falsy(inferredTarget)
    THEN <<PlanStep(id, modificationOrInsertion(title), inferredTarget, title,
                    code)>>
    ELSE <<>>

\* lines 179-220: the step of one fenced block of a headed section, <<>>
\* when the block is dropped
blockStep(id, title, target, lang, code) ==
    IF isShellLang(lang)
    THEN <<PlanStep(id, "run_command", firstLine(code), title, code)>>
    ELSE IF ~falsy(target)
    THEN <<PlanStep(id, modificationOrInsertion(title), target, title, code)>>
    ELSE inferredBlockStep(id, title, code, inferTargetFromCode(code, lang))

headedBlockStep(id, title, target, block) ==
    blockStep(id, title, target, toLowerCase(block.lang), trim(block.body))

headedSteps(stepNum, title, target, codeBlocks) ==
    Flatten([b \in 1..Len(codeBlocks) |->
               headedBlockStep(stepNum + b, title, target, codeBlocks[b])])

targetOf(tm) == IF tm.ok THEN tm.path ELSE undefined

\* lines 161-222: the body of the loop of pattern 1
headedSection(st, m, stepTitle, target, codeBlocks) ==
    IF Len(codeBlocks) > 0
    THEN withRange(st, headedSteps(st.stepNum, stepTitle, target, codeBlocks),
                   Len(codeBlocks), m.index, m.end)
    ELSE st

headedSectionOf(st, m, lcContent) ==
    headedSection(st, m, trim(m.title),
                  targetOf(findTarget(m.content, lcContent, 0)),
                  allFences(m.content, 0))

\* PATTERN 1: ## Step N: Title sections
RECURSIVE pattern1(_, _, _, _)
pattern1Match(s, lc, st, m) ==
    IF ~m.ok THEN st
    ELSE pattern1(s, lc, m.end, headedSectionOf(st, m, toLowerCase(m.content)))

pattern1(s, lc, from, st) == pattern1Match(s, lc, st, findStepHeader(s, lc, from))

\* end of the lazy ([\s\S]*?) of pattern 2 started at from
targetSectionEnd(lc, from) ==
    First(from, Max(from, Len(lc)), LAMBDA q :
        \/ q >= Len(lc)
        \/ startsWithAt(lc, "**target", q)
        \/ stepWordAhead(lc, q))

\* start of [^\n]+ after the greedy \s* that ran from m to n
actionStart(s, m, n) ==
    Last(m, n, LAMBDA t : t < Len(s) /\ charAt(s, t) # "\n")

actionAt(s, lc, i) ==
    /\ startsWithAt(lc, "**action:**", i)
    /\ actionStart(s, i + 11, skipSpaces(s, i + 11)) # -1

restOfLine(s, t) == slice(s, t, lineEnd(s, t))

actionFoundAt(s, i) ==
    IF i = -1 THEN undefined
    ELSE restOfLine(s, actionStart(s, i + 11, skipSpaces(s, i + 11)))

\* sectionContent.match(/\*\*Action:\*\*\s*([^\n]+)/i): the capture
findAction(s, lc, from) ==
    actionFoundAt(s, First(from, Len(s) - 1, LAMBDA j : actionAt(s, lc, j)))

\* line 238
actionDescOf(action, target) ==
    IF action # undefined THEN trim(action) ELSE "Modify " \o target

\* lines 247-266
targetCodeStep(st, m, end, actionDesc, lang, code) ==
    IF lang # "bash" /\ lang # "sh"
    THEN withRange(st, <<PlanStep(st.stepNum + 1,
                                  modificationOrInsertion(actionDesc), m.path,
                                  actionDesc, code)>>,
                   1, m.index, end)
    ELSE st

targetSectionStep(st, m, end, actionDesc, codeMatch) ==
    IF codeMatch.ok
    THEN targetCodeStep(st, m, end, actionDesc, toLowerCase(codeMatch.lang),
                        trim(codeMatch.body))
    ELSE st

\* lines 233-267: the body of the loop of pattern 2
targetSection(st, m, end, sectionContent, lcSection) ==
    targetSectionStep(st, m, end,
                      actionDescOf(findAction(sectionContent, lcSection, 0),
                                   m.path),
                      findFence(sectionContent, 0))

targetSectionOf(st, m, end, sectionContent) ==
    IF isProcessed(st.processedRanges, m.index) THEN st
    ELSE targetSection(st, m, end, sectionContent, toLowerCase(sectionContent))

\* PATTERN 2: **Target File:** `path` blocks
RECURSIVE pattern2(_, _, _, _)
pattern2Section(s, lc, st, m, end) ==
    pattern2(s, lc, end, targetSectionOf(st, m, end, slice(s, m.end, end)))

pattern2Match(s, lc, st, m) ==
    IF ~m.ok THEN st
    ELSE pattern2Section(s, lc, st, m, targetSectionEnd(lc, m.end))

pattern2(s, lc, from, st) == pattern2Match(s, lc, st, findTarget(s, lc, from))

\* (?:bash|sh|shell)\n at a: the position of the newline, or -1
bashLangEnd(lc, a) ==
    IF startsWithAt(lc, "bash\n", a) THEN a + 4
    ELSE IF startsWithAt(lc, "shell\n", a) THEN a + 5
    ELSE IF startsWithAt(lc, "sh\n", a) THEN a + 2
    ELSE -1

NoBashFence == [ok |-> FALSE, index |-> -1, body |-> "", end |-> -1]

bashFenceBody(s, i, w, close) ==
    IF close # -1
    THEN [ok |-> TRUE, index |-> i, body |-> slice(s, w + 1, close),
          end |-> close + 3]
    ELSE NoBashFence

bashFenceLang(s, i, w) ==
    IF w # -1 THEN bashFenceBody(s, i, w, indexOfFrom(s, FENCE, w + 1))
    ELSE NoBashFence

\* /```(?:bash|sh|shell)\n([\s\S]*?)```/gi at i
bashFenceAt(s, lc, i) ==
    IF startsWithAt(s, FENCE, i) THEN bashFenceLang(s, i, bashLangEnd(lc, i + 3))
    ELSE NoBashFence

findBashFence(s, lc, from) ==
    bashFenceAt(s, lc,
        First(from, Len(s) - 1, LAMBDA i : bashFenceAt(s, lc, i).ok))

isCommand(cmd) == cmd # "" /\ ~startsWith(cmd, "#")

\* lines 279-281: cmd.trim() && !cmd.trim().startsWith("#")
isCommandLine(l) == isCommand(trim(l))

commandLines(commands) == SelectSeq(split(commands, "\n"), isCommandLine)

\* lines 284-290
commandStep(id, cmd) ==
    PlanStep(id, "run_command", cmd, "Run: " \o slice(cmd, 0, 50), cmd)

commandLineStep(id, l) == commandStep(id, trim(l))

\* lines 276-296: the body of the loop of pattern 3
shellBlockSteps(st, m, cmdLines) ==
    withRange(st,
              [n \in 1..Len(cmdLines) |->
                   commandLineStep(st.stepNum + n, cmdLines[n])],
              Len(cmdLines), m.index, m.end)

shellBlock(st, m) ==
    IF isProcessed(st.processedRanges, m.index) THEN st
    ELSE shellBlockSteps(st, m, commandLines(trim(m.body)))

\* PATTERN 3: standalone shell blocks, one run_command step per line
RECURSIVE pattern3(_, _, _, _)
pattern3Match(s, lc, st, m) ==
    IF ~m.ok THEN st ELSE pattern3(s, lc, m.end, shellBlock(st, m))

pattern3(s, lc, from, st) ==
    pattern3Match(s, lc, st, findBashFence(s, lc, from))

\* \*\* at b, b past the blanks
boldAt(s, b) == IF startsWithAt(s, "**", b) THEN b + 2 ELSE -1

\* \d+\.\s*\*\* with the digits in a..d
numberedHeadAfterDigits(s, a, d) ==
    IF d > a /\ charAt(s, d) = "." THEN boldAt(s, skipSpaces(s, d + 1))
    ELSE -1

numberedHeadFrom(s, a) == numberedHeadAfterDigits(s, a, skipDigits(s, a))

\* /\s*\d+\.\s*\*\*/ at x: the end of the head of a numbered bold item
numberedHeadEnd(s, x) == numberedHeadFrom(s, skipSpaces(s, x))

\* end of [^\n]*(?:\n(?!\s*\d+\.\s*\*\*)[^\n]*)* started at i
RECURSIVE detailsEnd(_, _)
detailsEndAt(s, le) ==
    IF le >= Len(s) \/ numberedHeadEnd(s, le + 1) # -1 THEN le
    ELSE detailsEnd(s, le + 1)

detailsEnd(s, i) == detailsEndAt(s, lineEnd(s, i))

NoNumbered ==
    [ok |-> FALSE, index |-> -1, title |-> "", details |-> "", full |-> "",
     end |-> -1]

\* the item at p whose title is b..c and whose details are e1..end
numberedItem(s, p, b, c, e1, end) ==
    [ok |-> TRUE, index |-> p, title |-> slice(s, b, c),
     details |-> slice(s, e1, end), full |-> slice(s, p, end), end |-> end]

numberedDetails(s, p, b, c, e1) == numberedItem(s, p, b, c, e1, detailsEnd(s, e1))

\* ([^*]+)\*\*[:\s]* with the title started at b and the next star at c
numberedTitle(s, p, b, c) ==
    IF c > b /\ startsWithAt(s, "**", c)
    THEN numberedDetails(s, p, b, c, skipColonsAndSpaces(s, c + 2))
    ELSE NoNumbered

numberedHead(s, p, b) ==
    IF b # -1 THEN numberedTitle(s, p, b, indexOfFrom(s, "*", b))
    ELSE NoNumbered

\* /^\s*(\d+)\.\s*\*\*([^*]+)\*\*[:\s]*([^\n]*(?:\n(?!\s*\d+\.\s*\*\*)[^\n]*)*)/gm at p
numberedAt(s, p) ==
    IF p < Len(s) /\ (p = 0 \/ charAt(s, p - 1) = "\n")
    THEN numberedHead(s, p, numberedHeadEnd(s, p))
    ELSE NoNumbered

findNumbered(s, from) ==
    numberedAt(s, First(from, Len(s) - 1, LAMBDA p : numberedAt(s, p).ok))

referenceWords == {"in", "to", "at", "from", "file"}

\* \s+(?:`([^`]+)`|(\S+\.\w+)) at a
referencePath(s, c) == IF c # -1 THEN pathOrQuoted(s, c) ELSE NoPath

\* /w\s+(?:`([^`]+)`|(\S+\.\w+))/ at i
referenceAt(s, lc, w, i) ==
    IF startsWithAt(lc, w, i) THEN referencePath(s, spaces1(s, i + Len(w)))
    ELSE NoPath

referenceHits(s, lc, i) == {w \in referenceWords : referenceAt(s, lc, w, i).ok}

referenceOf(s, lc, i, hits) ==
    referenceAt(s, lc, CHOOSE w \in hits : TRUE, i).path

referenceFoundAt(s, lc, i) ==
    IF i = -1 THEN undefined ELSE referenceOf(s, lc, i, referenceHits(s, lc, i))

\* details.match(/(?:in|to|at|from|file)\s+(?:`([^`]+)`|(\S+\.\w+))/i)
fileReference(s, lc, from) ==
    referenceFoundAt(s, lc,
        First(from, Len(s) - 1, LAMBDA j : referenceHits(s, lc, j) # {}))

\* a block without target that is an insertion whenever it is no modification
numberedInsertedStep(id, title, code, inferredTarget) ==
    <<PlanStep(id,
               IF isModificationStep(title) THEN "edit_file" ELSE "insert_code",
               inferredTarget, title, code)>>

\* lines 338-347: a block of a numbered item without explicit target
numberedInferredStep(id, title, code, inferredTarget) ==
    <<PlanStep(id,
               IF isModificationStep(title) THEN "edit_file"
               ELSE IF ~falsy(inferredTarget) THEN "insert_code"
               ELSE "analyze",
               inferredTarget, title, code)>>

\* lines 318-348: a numbered item that carries a block
numberedCodeStep(id, title, target, lang, code) ==
    IF isShellLang(lang)
    THEN <<PlanStep(id, "run_command", firstLine(code), title, code)>>
    ELSE IF ~falsy(target)
    THEN <<PlanStep(id, modificationOrInsertion(title), target, title, code)>>
    ELSE numberedInferredStep(id, title, code, inferTargetFromCode(code, lang))

\* lines 349-359: a numbered item without block
numberedPlainStep(id, title, details, target) ==
    IF ~falsy(target) /\ hasActionVerb(title)
    THEN <<PlanStep(id, "edit_file", target,
                    title \o ": " \o slice(details, 0, 150), undefined)>>
    ELSE <<>>

\* the step of one numbered item, <<>> when the item is informational
numberedItemStep(id, title, details, codeMatch, target) ==
    IF codeMatch.ok
    THEN numberedCodeStep(id, title, target, toLowerCase(codeMatch.lang),
                          trim(codeMatch.body))
    ELSE numberedPlainStep(id, title, details, target)

withSteps(st, new) ==
    [steps |-> st.steps \o new, stepNum |-> st.stepNum + Len(new),
     processedRanges |-> st.processedRanges]

numberedSectionOf(st, title, details, codeMatch) ==
    withSteps(st,
        numberedItemStep(st.stepNum + 1, title, details, codeMatch,
                         fileReference(details, toLowerCase(details), 0)))

\* lines 303-360: the body of the loop of pattern 4
numberedSection(st, m) ==
    IF isProcessed(st.processedRanges, m.index) THEN st
    ELSE numberedSectionOf(st, trim(m.title), trim(m.details),
                           findFence(m.full, 0))

\* PATTERN 4: numbered instruction steps with inline code targets
RECURSIVE pattern4(_, _, _)
pattern4Match(s, st, m) ==
    IF ~m.ok THEN st ELSE pattern4(s, m.end, numberedSection(st, m))

pattern4(s, from, st) == pattern4Match(s, st, findNumbered(s, from))

NoSteps == [steps |-> <<>>, stepNum |-> 0, processedRanges |-> <<>>]

teddySteps(content, lc) ==
    pattern4(content, 0,
        pattern3(content, lc, 0,
            pattern2(content, lc, 0, pattern1(content, lc, 0, NoSteps)))).steps

parseTeddySpecSteps(content) == teddySteps(content, toLowerCase(content))

(***************************************************************************)
(* detectPlanDocument                                                      *)
(***************************************************************************)
MIN_PLAN_LENGTH == 100

\* /##\s*Step\s*\d+/i
hasStepMarker(lc) == \E i \in 0..Len(lc) : stepAhead(lc, i)

\* [A-Z]: at k
taskLetterAt(lc, k) == isLower(charAt(lc, k)) /\ charAt(lc, k + 1) = ":"

\* Task\s*[A-Z]: at j
taskAt(lc, j) ==
    startsWithAt(lc, "task", j) /\ taskLetterAt(lc, skipSpaces(lc, j + 4))

\* /###\s*Task\s*[A-Z]:/i
hasTaskMarker(lc) ==
    \E i \in 0..Len(lc) :
        startsWithAt(lc, "###", i) /\ taskAt(lc, skipSpaces(lc, i + 3))

\* lines 96-104: the number of teddy markers that the content has
teddyMarkerCount(lc) ==
    Cardinality({n \in 1..6 :
        \/ n = 1 /\ \E i \in 0..Len(lc) : targetMarkerEnd(lc, i) # -1
        \/ n = 2 /\ includes(lc, "**action:**")
        \/ n = 3 /\ includes(lc, "**implementation logic:**")
        \/ n = 4 /\ includes(lc, "**goal:**")
        \/ n = 5 /\ hasStepMarker(lc)
        \/ n = 6 /\ hasTaskMarker(lc)})

numberedLeadWords ==
    {"locate", "create", "add", "modify", "update", "insert", "remove"}

\* [^*]+\*\* with the text started at b and the next star at c
closesBold(s, b, c) == c > b /\ startsWithAt(s, "**", c)

\* /^\s*\d+\.\s*\*\*[^*]+\*\*/ whose head ends at b
boldTitleAt(s, b) == b # -1 /\ closesBold(s, b, indexOfFrom(s, "*", b))

\* (?:Locate|Create|Add|Modify|Update|Insert|Remove) at b
leadWordAt(lc, b) ==
    b # -1 /\ \E w \in numberedLeadWords : startsWithAt(lc, w, b)

\* /^\s*\d+\.\s*\*\*[^*]+\*\*/ (start of the text only) or
\* /^\s*\d+\.\s*\*\*(?:Locate|Create|Add|Modify|Update|Insert|Remove)/im
hasNumberedSteps(content, lc) ==
    \/ boldTitleAt(content, numberedHeadEnd(content, 0))
    \/ \E p \in 0..Len(content) :
         /\ (p = 0 \/ charAt(content, p - 1) = "\n")
         /\ leadWordAt(lc, numberedHeadEnd(content, p))

simpleMarkers == {"create_file:", "edit_file:", "run_command:"}

\* /v\s*[^\n]+/ at i
simpleMarkerAt(content, lc, v, i) ==
    /\ startsWithAt(lc, v, i)
    /\ actionStart(content, i + Len(v), skipSpaces(content, i + Len(v))) # -1

\* /(CREATE_FILE|EDIT_FILE|RUN_COMMAND):\s*[^\n]+/i
hasSimpleFormat(content, lc) ==
    \E i \in 0..Len(lc) :
        \E v \in simpleMarkers : simpleMarkerAt(content, lc, v, i)

\* \w+\n[\s\S]+?``` with the word in a..w
codeBlockAfter(content, a, w) ==
    /\ w > a
    /\ charAt(content, w) = "\n"
    /\ indexOfFrom(content, FENCE, w + 2) # -1

\* /```\w+\n[\s\S]+?```/
hasCodeBlocks(content) ==
    \E i \in 0..Len(content) :
        /\ startsWithAt(content, FENCE, i)
        /\ codeBlockAfter(content, i + 3, skipWord(content, i + 3))

NoPlanDocument == [isPlanDocument |-> FALSE, steps |-> <<>>, format |-> "null"]

\* lines 128-134
simpleDetection(parsed) ==
    IF Len(parsed) > 0
    THEN [isPlanDocument |-> TRUE, steps |-> parsed, format |-> "simple"]
    ELSE NoPlanDocument

detectSimple(content, lc) ==
    IF hasSimpleFormat(content, lc)
    THEN simpleDetection(parseSimplePlanSteps(content))
    ELSE NoPlanDocument

\* lines 120-125
teddyDetection(content, lc, parsed) ==
    IF Len(parsed) > 0
    THEN [isPlanDocument |-> TRUE, steps |-> parsed, format |-> "teddy_spec"]
    ELSE detectSimple(content, lc)

\* lines 106-137
detectIn(content, lc) ==
    IF \/ teddyMarkerCount(lc) >= 2
       \/ (hasNumberedSteps(content, lc) /\ hasCodeBlocks(content))
    THEN teddyDetection(content, lc, teddySteps(content, lc))
    ELSE detectSimple(content, lc)

\* a detector without the length threshold
detectAnyLength(content) ==
    IF falsy(content) THEN NoPlanDocument
    ELSE detectIn(content, toLowerCase(content))

\* lines 90-138
detectPlanDocument(content) ==
    IF falsy(content) \/ Len(content) < MIN_PLAN_LENGTH THEN NoPlanDocument
    ELSE detectIn(content, toLowerCase(content))

(***************************************************************************)
(* extractTextContent.  A message content is absent, a string, or an array *)
(* of parts; a part is a text part or an image part.                       *)
(***************************************************************************)
StringContent(text) == [kind |-> "string", text |-> text, parts |-> <<>>]
ArrayContent(parts) == [kind |-> "array", text |-> "", parts |-> parts]
NoContent == [kind |-> "none", text |-> "", parts |-> <<>>]
TextPart(text) == [type |-> "text", text |-> text]
ImagePart == [type |-> "imageUrl", text |-> ""]

isTextPart(part) == part.type = "text"

NoText == [contextContent |-> "", userInstruction |-> "", fullContent |-> ""]

\* lines 46-52 and 67-73: all of the text is the instruction
instructionOnly(text) ==
    [contextContent |-> "", userInstruction |-> text, fullContent |-> text]

\* an extraction that keeps the last text part and drops the ones before it
lastPartOnly(textParts) ==
    IF Len(textParts) = 0 THEN NoText
    ELSE instructionOnly(textParts[Len(textParts)])

\* an extraction whose context takes in the last text part as well
contextOfAllParts(textParts) ==
    IF Len(textParts) = 0 THEN NoText
    ELSE IF Len(textParts) = 1 THEN instructionOnly(textParts[1])
    ELSE [contextContent |-> join(textParts, "\n\n"),
          userInstruction |-> textParts[Len(textParts)],
          fullContent |-> join(textParts, "\n\n")]

\* lines 58-77: the text parts of an array content
textOfParts(textParts) ==
    IF Len(textParts) = 0 THEN NoText
    ELSE IF Len(textParts) = 1 THEN instructionOnly(textParts[1])
    ELSE [contextContent |->
              join(SubSeq(textParts, 1, Len(textParts) - 1), "\n\n"),
          userInstruction |-> textParts[Len(textParts)],
          fullContent |-> join(textParts, "\n\n")]

partText(part) == part.text

textsOf(parts) == [n \in 1..Len(parts) |-> partText(parts[n])]

extractContent(content) ==
    IF content.kind = "none" \/ (content.kind = "string" /\ content.text = "")
    THEN NoText
    ELSE IF content.kind = "string" THEN instructionOnly(content.text)
    ELSE textOfParts(textsOf(SelectSeq(content.parts, isTextPart)))

extractTextContent(message) == extractContent(message.content)

(***************************************************************************)
(* The insertion locator of handleInsertCode: where the code block goes    *)
(* in an existing file.                                                    *)
(***************************************************************************)
digitValue(c) == (CHOOSE k \in 1..10 : SubSeq(DIGITS, k, k) = c) - 1

\* parseInt(digits, 10) of a non-empty run of digits
RECURSIVE parseInt(_)
parseInt(ds) ==
    IF Len(ds) = 0 THEN 0
    ELSE 10 * parseInt(slice(ds, 0, Len(ds) - 1))
           + digitValue(charAt(ds, Len(ds) - 1))

importWords == {"import", "use", "from", "require", "#include"}

\* .*\n with the line ended at le
importLineEndAt(s, le) == IF le < Len(s) THEN le + 1 ELSE -1

\* one (?:import|use|from|require|#include).*\n at p: the end, or -1
importLineEnd(s, p) ==
    IF \E w \in importWords : startsWithAt(s, w, p)
    THEN importLineEndAt(s, lineEnd(s, p))
    ELSE -1

\* end of the greedy repetition of import lines started at p
RECURSIVE importRunEnd(_, _)
importRunNext(s, p, e) == IF e = -1 THEN p ELSE importRunEnd(s, e)

importRunEnd(s, p) == importRunNext(s, p, importLineEnd(s, p))

importsEndFrom(s, p) == IF p = -1 THEN -1 ELSE importRunEnd(s, p)

\* existingContent.match(/^((?:import|use|from|require|#include).*\n)+/m):
\* the end of the match (index + length), -1 when there is no match
importsEnd(s) ==
    importsEndFrom(s, First(0, Len(s) - 1, LAMBDA i :
        /\ (i = 0 \/ charAt(s, i - 1) = "\n")
        /\ importLineEnd(s, i) # -1))

lineNumberAt(desc, i) ==
    /\ startsWithAt(desc, "line", i)
    /\ isDigit(charAt(desc, skipSpaces(desc, i + 4)))

digitsFrom(desc, a) == slice(desc, a, skipDigits(desc, a))

lineDigitsAt(desc, i) ==
    IF i = -1 THEN undefined ELSE digitsFrom(desc, skipSpaces(desc, i + 4))

\* desc.match(/(?:line|around line)\s*(\d+)/i): the digits, undefined if none
lineMatch(desc) ==
    lineDigitsAt(desc, First(0, Len(desc) - 1, LAMBDA j : lineNumberAt(desc, j)))

isQuote(c) == c = BQ \/ c = "'"

wordStart(desc, b) == IF isWord(charAt(desc, b)) THEN b ELSE -1

\* [`']?(\w+) at a: the start of the captured word, or -1
quotedWordStart(desc, a) ==
    IF isQuote(charAt(desc, a)) /\ isWord(charAt(desc, a + 1)) THEN a + 1
    ELSE wordStart(desc, a)

theWordStart(desc, c) == IF c # -1 THEN quotedWordStart(desc, c) ELSE -1

\* the\s+[`']?(\w+) at a
withThe(desc, a) ==
    IF startsWithAt(desc, "the", a) THEN theWordStart(desc, spaces1(desc, a + 3))
    ELSE -1

articleOrWord(desc, a, b) == IF b # -1 THEN b ELSE quotedWordStart(desc, a)

\* (?:the\s+)?[`']?(\w+) at a: the start of the captured word, trying the
\* optional article first; -1 when no word can be captured
namedWordStart(desc, a) ==
    IF a = -1 THEN -1 ELSE articleOrWord(desc, a, withThe(desc, a))

\* w\s+(?:the\s+)?[`']?(\w+) at i
leadWordAfter(desc, w, i) ==
    IF startsWithAt(desc, w, i)
    THEN namedWordStart(desc, spaces1(desc, i + Len(w)))
    ELSE -1

leadWordHits(desc, words, i) ==
    {n \in 1..Len(words) : leadWordAfter(desc, words[n], i) # -1}

firstHit(hits) == CHOOSE m \in hits : \A o \in hits : m <= o

leadWordOf(desc, words, i, hits) ==
    IF hits = {} THEN -1 ELSE leadWordAfter(desc, words[firstHit(hits)], i)

\* the word captured by /(?:w1|w2|...)\s+(?:the\s+)?[`']?(\w+)/ at i, with
\* the alternatives in the order the matcher tries them; -1 when none
leadWordStart(desc, words, i) ==
    leadWordOf(desc, words, i, leadWordHits(desc, words, i))

wordFromStart(desc, b) == slice(desc, b, skipWord(desc, b))

namedWordAt(desc, words, i) ==
    IF i = -1 THEN undefined
    ELSE wordFromStart(desc, leadWordStart(desc, words, i))

namedWord(desc, words) ==
    namedWordAt(desc, words,
        First(0, Len(desc) - 1, LAMBDA j : leadWordStart(desc, words, j) # -1))

\* desc.match(/(?:in|into|to|inside|within)\s+(?:the\s+)?[`']?(\w+)(?:\s*\(|\s+method|\s+function)?/i)[1]
methodMatch(desc) == namedWord(desc, <<"in", "into", "to", "inside", "within">>)

\* desc.match(/(?:after|following)\s+(?:the\s+)?[`']?(\w+)/i)[1]
afterMatch(desc) == namedWord(desc, <<"after", "following">>)

closeAfter(close) == IF close # -1 THEN close + 1 ELSE -1

\* \s*\([^)]*\) with the blanks ended at a
callArgsEnd(lc, a) ==
    IF charAt(lc, a) = "(" THEN closeAfter(indexOfFrom(lc, ")", a + 1)) ELSE -1

\* NAME\s*\([^)]*\) at i (lower-cased text): the end, or -1
callShapeEnd(lc, name, i) ==
    IF i # -1 /\ startsWithAt(lc, name, i)
    THEN callArgsEnd(lc, skipSpaces(lc, i + Len(name)))
    ELSE -1

methodKeywords == {"fn", "func", "fun", "def", "function"}

\* kw\s+NAME\s*\([^)]*\) at i
keywordCallEnd(lc, name, kw, i) ==
    IF startsWithAt(lc, kw, i)
    THEN callShapeEnd(lc, name, spaces1(lc, i + Len(kw)))
    ELSE -1

keywordHits(lc, name, i) ==
    {kw \in methodKeywords : keywordCallEnd(lc, name, kw, i) # -1}

braceAfterCall(lc, c) == closeAfter(indexOfFrom(lc, "{", c))

keywordBraceEnd(lc, name, i, hits) ==
    IF hits = {} THEN -1
    ELSE braceAfterCall(lc,
             keywordCallEnd(lc, name, CHOOSE k \in hits : TRUE, i))

\* ((?:fn|func|fun|def|function)\s+NAME\s*\([^)]*\)[^{]*\{) at i
methodPattern1End(lc, name, i) ==
    keywordBraceEnd(lc, name, i, keywordHits(lc, name, i))

\* (?:->\s*[^{]+)?\s*\{ at a, brace the next brace from a + 2
arrowBraceEnd(lc, a, brace) ==
    IF startsWithAt(lc, "->", a) /\ brace > a + 2 THEN brace + 1
    ELSE IF charAt(lc, a) = "{" THEN a + 1
    ELSE -1

returnTypeEnd(lc, a) == arrowBraceEnd(lc, a, indexOfFrom(lc, "{", a + 2))

afterCall(lc, c) == IF c = -1 THEN -1 ELSE returnTypeEnd(lc, skipSpaces(lc, c))

\* (NAME\s*\([^)]*\)\s*(?:->\s*[^{]+)?\s*\{) at i
methodPattern2End(lc, name, i) == afterCall(lc, callShapeEnd(lc, name, i))

\* \{ at brace
braceEnd(lc, brace) == IF charAt(lc, brace) = "{" THEN brace + 1 ELSE -1

\* \w+\s*\{ at ty
typedBraceEnd(lc, ty) ==
    IF isWord(charAt(lc, ty)) THEN braceEnd(lc, skipSpaces(lc, skipWord(lc, ty)))
    ELSE -1

\* :\s*\w+\s*\{ at colon
colonTypeEnd(lc, colon) ==
    IF charAt(lc, colon) = ":" THEN typedBraceEnd(lc, skipSpaces(lc, colon + 1))
    ELSE -1

\* \s*\w*:\s*\w+\s*\{ after the call that ends at c
typedReturnEnd(lc, c) ==
    IF c = -1 THEN -1 ELSE colonTypeEnd(lc, skipWord(lc, skipSpaces(lc, c)))

\* (fun\s+NAME\s*\([^)]*\)\s*\w*:\s*\w+\s*\{) at i
methodPattern3End(lc, name, i) ==
    typedReturnEnd(lc, keywordCallEnd(lc, name, "fun", i))

methodPatternEnd(lc, name, n, i) ==
    IF n = 1 THEN methodPattern1End(lc, name, i)
    ELSE IF n = 2 THEN methodPattern2End(lc, name, i)
    ELSE methodPattern3End(lc, name, i)

methodEndAt(lc, name, n, i) ==
    IF i = -1 THEN -1 ELSE methodPatternEnd(lc, name, n, i)

\* existingContent.match(pattern n): index + length of the leftmost match
methodInsertPos(lc, name, n) ==
    methodEndAt(lc, name, n,
        First(0, Len(lc) - 1, LAMBDA j : methodPatternEnd(lc, name, n, j) # -1))

\* net count of "{" minus "}" over positions from..i
braceCount(s, from, i) ==
    Cardinality({j \in from..i : charAt(s, j) = "{"})
      - Cardinality({j \in from..i : charAt(s, j) = "}"})

blockEndAt(startBrace, i) == IF i = -1 THEN startBrace ELSE i + 1

\* the brace scan of the "after <name>" strategy: one past the position
\* where the count returns to zero, startBrace when it never does
blockEnd(s, startBrace) ==
    blockEndAt(startBrace,
        First(startBrace, Len(s) - 1, LAMBDA j :
            braceCount(s, startBrace, j) = 0))

spliceAt(lines, start, item) ==
    SubSeq(lines, 1, start) \o <<item>> \o SubSeq(lines, start + 1, Len(lines))

\* lines.splice(insertIdx, 0, codeBlock)
splice(lines, insertIdx, item) ==
    spliceAt(lines,
             IF insertIdx < 0 THEN Max(Len(lines) + insertIdx, 0)
             ELSE Min(insertIdx, Len(lines)),
             item)

\* an insertion that overwrites the character at the position
insertOver(content, pos, before, codeBlock, after) ==
    slice(content, 0, pos) \o before \o codeBlock \o after
      \o sliceFrom(content, Min(pos + 1, Len(content)))

insertAt(content, pos, before, codeBlock, after) ==
    slice(content, 0, pos) \o before \o codeBlock \o after \o sliceFrom(content, pos)

Inserted(newContent, insertionMethod) ==
    [newContent |-> newContent, insertionMethod |-> insertionMethod]

appended(existingContent, codeBlock, method) ==
    Inserted(existingContent \o "\n\n" \o codeBlock, method)

\* a fallback that puts the block at the end of the file
insertedAtBottom(existingContent, codeBlock, method) ==
    Inserted(existingContent \o "\n\n" \o codeBlock, method)

\* lines 1092 and 1110
insertedAtTop(existingContent, codeBlock, method) ==
    Inserted(codeBlock \o "\n\n" \o existingContent, method)

\* lines 1101-1112: strategy 2, imports the end of the import lines
afterImports(existingContent, codeBlock, imports) ==
    IF imports # -1
    THEN Inserted(insertAt(existingContent, imports, "\n", codeBlock, "\n"),
                  "inserted after imports")
    ELSE insertedAtTop(existingContent, codeBlock,
                       "inserted at top (no imports found)")

\* an insertion that counts the lines from 0
atLineFromZero(codeBlock, lineNum, lines) ==
    Inserted(join(splice(lines, Min(lineNum, Len(lines)), codeBlock), "\n"),
             "inserted at line")

\* lines 1127-1133
atLine(codeBlock, lineNum, lines) ==
    Inserted(join(splice(lines, Min(lineNum - 1, Len(lines)), codeBlock), "\n"),
             "inserted at line")

\* lines 1173-1186: the fallback of the method strategy
afterOpeningBrace(existingContent, codeBlock, braceAfter) ==
    IF braceAfter # -1
    THEN Inserted(insertAt(existingContent, braceAfter + 1, "\n", codeBlock, ""),
                  "inserted after opening brace")
    ELSE appended(existingContent, codeBlock,
                  "appended (couldn't find insertion point)")

methodFallback(existingContent, codeBlock, simpleMatch) ==
    IF simpleMatch # -1
    THEN afterOpeningBrace(existingContent, codeBlock,
                           indexOfFrom(existingContent, "{", simpleMatch))
    ELSE appended(existingContent, codeBlock, "appended (method not found)")

\* lines 1155-1187: found is the set of the patterns that match
inMethodFound(existingContent, lc, codeBlock, methodName, found) ==
    IF found # {}
    THEN Inserted(insertAt(existingContent,
                           methodInsertPos(lc, methodName, firstHit(found)),
                           "\n", codeBlock, ""),
                  "inserted in method")
    ELSE methodFallback(existingContent, codeBlock,
                        indexOf(existingContent, methodName))

inMethod(existingContent, lc, codeBlock, methodName) ==
    inMethodFound(existingContent, lc, codeBlock, methodName,
                  {n \in 1..3 : methodInsertPos(lc, methodName, n) # -1})

\* lines 1196-1217
afterBlock(existingContent, codeBlock, startBrace) ==
    IF startBrace # -1
    THEN Inserted(insertAt(existingContent, blockEnd(existingContent, startBrace),
                           "\n\n", codeBlock, ""),
                  "inserted after")
    ELSE appended(existingContent, codeBlock, "appended (no block found)")

afterNamed(existingContent, codeBlock, idx) ==
    IF idx # -1
    THEN afterBlock(existingContent, codeBlock,
                    indexOfFrom(existingContent, "{", idx))
    ELSE appended(existingContent, codeBlock, "appended (reference not found)")

\* lines 1115-1226: strategy 3 and the default
insertByMatch(existingContent, codeBlock, lineDigits, methodName, afterName) ==
    IF lineDigits # undefined
    THEN atLine(codeBlock, parseInt(lineDigits), split(existingContent, "\n"))
    ELSE IF methodName # undefined
    THEN inMethod(existingContent, toLowerCase(existingContent), codeBlock,
                  methodName)
    ELSE IF afterName # undefined
    THEN afterNamed(existingContent, codeBlock,
                    indexOf(existingContent, afterName))
    ELSE appended(existingContent, codeBlock, "appended at end")

insertByDescription(existingContent, desc, codeBlock) ==
    IF \/ includes(desc, "at the top") \/ includes(desc, "at the beginning")
       \/ includes(desc, "first line")
    THEN insertedAtTop(existingContent, codeBlock, "inserted at top")
    ELSE IF includes(desc, "after import") \/ includes(desc, "after the import")
    THEN afterImports(existingContent, codeBlock, importsEnd(existingContent))
    ELSE insertByMatch(existingContent, codeBlock, lineMatch(desc),
                       methodMatch(desc), afterMatch(desc))

\* new content and insertion method of handleInsertCode on an existing file
insertCode(existingContent, description, codeBlock) ==
    insertByDescription(existingContent, toLowerCase(description), codeBlock)

(***************************************************************************)
(* Bounds of the model and the inputs the environment may supply.          *)
(***************************************************************************)
\* number of success criteria the task analysis derives
MaxCriteria == 2

\* a cancellation, if there is one, is signalled before the end of this
\* verification attempt
MaxAbortAttempt == 1

\* program constants
MAX_VERIFICATION_ATTEMPTS == 10
Infinity == 1000000
MIN_CONTENT_LENGTH == 10
MAX_TARGET_LENGTH == 200

Criteria == 1..MaxCriteria

\* ide.getWorkspaceDirs()
workspaceDirs == <<"file:///ws">>
rootPath == workspaceDirs[1]
\* rootPath.replace(/^file:\/\//, "")
rootDir == IF startsWith(rootPath, "file://") THEN sliceFrom(rootPath, 7)
           ELSE rootPath

RECURSIVE repeat(_, _)
repeat(text, n) ==
    IF n = 0 THEN ""
    ELSE IF n = 1 THEN text
    ELSE repeat(text, n \div 2) \o repeat(text, n - n \div 2)

\* a teddy-spec plan: a headed step with a modification-verb title, a target
\* and a fenced TypeScript block
PlanDocEdit ==
    "# Plan\n\n## Step 1: Update error handling\n\n**Target:** src/x.ts\n\n"
      \o FENCE \o "ts\nexport function f() {\n  try { g(); } catch (e) { report(e); }\n}\n"
      \o FENCE \o "\n"

\* a teddy-spec plan with an insertion, a shell block and a numbered item
\* whose reference bled a description into the target
PlanDocMixed ==
    "**Goal:** add logging\n\n"
      \o FENCE \o "bash\nnpm test\n" \o FENCE \o "\n"
      \o "1. **Add notes** in " \o BQ \o "src/x.ts - notes" \o BQ \o "\n"
      \o FENCE \o "ts\nconst n = 1;\n" \o FENCE \o "\n\n"
      \o "**Target File:** " \o BQ \o "src/x.ts" \o BQ
      \o "\n**Action:** Add a log helper after f\n"
      \o FENCE \o "ts\nfunction log() {}\n" \o FENCE \o "\n"

\* a text with plan markers from which no step can be derived
PlanDocNoSteps ==
    "**Goal:** tidy the error handling of the module\n\n**Action:** review "
      \o "every catch block and decide what to do, then report back to the team\n"

ShortContext == "## Step 1: Update\n**Target:** src/x.ts\n"

User(content) == [role |-> "user", content |-> content]
Assistant(text) == [role |-> "assistant", content |-> StringContent(text)]

ExecuteInstruction == "implement the steps above"

\* replies of model.streamComplete to the specification prompt
SpecReplies == {"**Goal**: one module"}

\* replies to the plan prompt
PlanReplies ==
    { "1. CREATE_FILE: src/a.ts | entry point",
      "1. EDIT_FILE: src/x.ts | Fix null check\n2. RUN_COMMAND: npm test\n3. ANALYZE: the result",
      "1. CREATE_FILE: src/a.ts - entry | notes\n2. EDIT_FILE: src/x.ts - fix | notes\n"
        \o "3. EDIT_FILE: src/" \o repeat("a", MAX_TARGET_LENGTH) \o ".ts | long",
      "I cannot produce a plan." }

\* replies to the feedback prompt of the regeneration
RegenReplies ==
    { "1. EDIT_FILE: src/x.ts | finish the change",
      "1. RUN_COMMAND: npm test | run the tests",
      "Nothing left to do." }

\* replies to the code prompts of create_file and edit_file
CodeReplies ==
    { "export const a = 1;\n",
      FENCE \o "ts\nlet b;\n" \o FENCE,
      "" }

\* the workspace before the instruction: src/x.ts exists or not
WithX == [p \in {rootDir \o "/src/x.ts"} |->
            "import g from 'g';\nfunction f() {\n  g();\n}\n"]
Empty == [p \in {} |-> ""]

\* the chat histories handed to autonomousMode, each with the workspace it
\* is run against
Scenarios ==
    { <<WithX, <<User(StringContent("create a calculator module"))>> >>,
      <<Empty, <<User(StringContent("create a calculator module"))>> >>,
      <<Empty, <<User(StringContent("hi"))>> >>,
      <<WithX, <<User(NoContent)>> >>,
      <<WithX, <<Assistant(PlanDocEdit), User(StringContent(ExecuteInstruction))>> >>,
      <<WithX, <<User(ArrayContent(<<TextPart(PlanDocEdit),
                                     TextPart(ExecuteInstruction)>>))>> >>,
      <<Empty, <<User(ArrayContent(<<TextPart(PlanDocEdit),
                                     TextPart(ExecuteInstruction)>>))>> >>,
      <<Empty, <<User(ArrayContent(<<TextPart(PlanDocEdit), ImagePart,
                                     TextPart("explain this plan")>>))>> >>,
      <<WithX, <<User(ArrayContent(<<TextPart(PlanDocMixed),
                                     TextPart("run the steps")>>))>> >>,
      <<Empty, <<User(ArrayContent(<<TextPart(PlanDocNoSteps),
                                     TextPart(ExecuteInstruction)>>))>> >>,
      <<Empty, <<User(ArrayContent(<<TextPart(ShortContext),
                                     TextPart(ExecuteInstruction)>>))>> >> }

(***************************************************************************)
(* State.                                                                  *)
(***************************************************************************)
VARIABLES
    messages,            \* the chat history
    fs,                  \* the workspace: path |-> content of existing files
    pc,                  \* position of the pipeline
    contextContent, userInstruction, planDetection,   \* locals of autonomousMode
    userWantsExecution, spec, plan, contextSpec,
    steps, stepIdx, successCount, failCount,          \* executeSteps
    snapshots, completedSnapshots,                    \* executeStepsWithVerification
    attempt, verificationPassed, lastFailedCount, stuckCount,
    result,
    out,                 \* progress lines yielded since the current step or
                         \* attempt began
    effects,             \* LLM and IDE calls issued since the current step began
    written,             \* paths handed to ide.writeFile so far
    specCalls, planCalls, regenCalls, execRuns,       \* calls made so far
    applied, returned,   \* a function of the module applied on its own: the
                         \* argument it is given and the value it returns
    aborted              \* abortController.signal.aborted of the request

modeVars == <<contextContent, userInstruction, planDetection,
              userWantsExecution, spec, plan, contextSpec>>
loopVars == <<snapshots, completedSnapshots, attempt, verificationPassed,
              lastFailedCount, stuckCount, result>>
stepVars == <<steps, stepIdx, successCount, failCount>>
callVars == <<specCalls, planCalls, regenCalls, execRuns>>
pipelineVars == <<messages, fs, modeVars, loopVars, stepVars, out, effects,
                  written, callVars>>
vars == <<pc, pipelineVars, applied, returned, aborted>>

Line(kind, text) == [kind |-> kind, text |-> text]
Call(op, arg) == [op |-> op, arg |-> arg]

NoDetection == [isPlanDocument |-> FALSE, steps |-> <<>>, format |-> "null"]
NoResult == [passed |-> FALSE, failed |-> {}, suggestions |-> <<>>]

NoCall == [fn |-> "none"]
NoValue == [fn |-> "none"]

\* the locals of the pipeline before autonomousMode has run
InitLocals ==
    /\ contextContent = "" /\ userInstruction = ""
    /\ planDetection = NoDetection /\ userWantsExecution = FALSE
    /\ spec = "" /\ plan = "" /\ contextSpec = undefined
    /\ steps = <<>> /\ stepIdx = 0 /\ successCount = 0 /\ failCount = 0
    /\ snapshots = <<>> /\ completedSnapshots = <<>>
    /\ attempt = 0 /\ verificationPassed = FALSE
    /\ lastFailedCount = Infinity /\ stuckCount = 0 /\ result = NoResult
    /\ out = <<>> /\ effects = <<>> /\ written = {}
    /\ specCalls = 0 /\ planCalls = 0 /\ regenCalls = 0 /\ execRuns = 0

Init ==
    /\ \E scenario \in Scenarios :
         /\ fs = scenario[1]
         /\ messages = scenario[2]
    /\ pc = "autonomousMode"
    /\ InitLocals
    /\ applied = NoCall /\ returned = NoValue
    /\ aborted = FALSE

(***************************************************************************)
(* The workspace capability.                                               *)
(***************************************************************************)
fileExists(files, path) == path \in DOMAIN files

\* the workspace after a successful ide.writeFile(path, content)
writeFile(files, path, content) ==
    [p \in DOMAIN files \cup {path} |-> IF p = path THEN content ELSE files[p]]

\* ide.readFile(path), "" standing for the catch branch of the callers
readOrEmpty(files, path) == IF fileExists(files, path) THEN files[path] ELSE ""

(***************************************************************************)
(* autonomousMode, phase 0: extraction, detection and the execution gate.  *)
(***************************************************************************)
RECURSIVE lastUserMessage(_, _)
lastUserMessage(msgs, i) ==
    IF i = 0 THEN [role |-> "user", content |-> NoContent]
    ELSE IF msgs[i].role = "user" THEN msgs[i]
    ELSE lastUserMessage(msgs, i - 1)

\* The pure functions of the pipeline are applied to the inputs of the
\* model once: a table pairs each input with its value, and the actions
\* read the value there.
valueAt(table, input) == (CHOOSE pair \in table : pair[1] = input)[2]

Histories == {scenario[2] : scenario \in Scenarios}

\* lines 548-559
extractedOf ==
    {<<history, extractTextContent(lastUserMessage(history, Len(history)))>> :
        history \in Histories}

\* line 573
planDetectionOf ==
    {<<history, detectPlanDocument(valueAt(extractedOf, history).contextContent)>> :
        history \in Histories}

\* line 574
userWantsExecutionOf ==
    {<<history, wantsExecution(valueAt(extractedOf, history).userInstruction)>> :
        history \in Histories}

\* lines 545-574: the newest user message is extracted and examined
DetectPlan ==
    /\ pc = "autonomousMode"
    /\ contextContent' = valueAt(extractedOf, messages).contextContent
    /\ userInstruction' = valueAt(extractedOf, messages).userInstruction
    /\ planDetection' = valueAt(planDetectionOf, messages)
    /\ userWantsExecution' = valueAt(userWantsExecutionOf, messages)
    /\ out' = <<Line("Autonomous Mode", "")>>
    /\ pc' = "gate"
    /\ UNCHANGED <<messages, applied, returned, aborted, fs, spec, plan, contextSpec, loopVars, stepVars,
                   effects, written, callVars>>

\* a gate that looks at the detection alone
takesPlanPathOnDetection == planDetection.isPlanDocument

\* line 576
takesPlanPath == planDetection.isPlanDocument /\ userWantsExecution
noInstruction == falsy(userInstruction) \/ Len(trim(userInstruction)) < 3

\* lines 576-595: the plan document is executed directly
PlanExecutionMode ==
    /\ pc = "gate"
    /\ takesPlanPath
    /\ IF Len(planDetection.steps) = 0
       THEN /\ out' = <<Line("Plan Execution Mode", ""),
                        Line("Could not parse actionable steps from the plan.", "")>>
            /\ pc' = "done"
            /\ steps' = steps
       ELSE /\ out' = <<Line("Plan Execution Mode", planDetection.format)>>
            /\ steps' = planDetection.steps
            /\ pc' = "snapshots"
    /\ UNCHANGED <<messages, applied, returned, aborted, fs, modeVars, loopVars, stepIdx, successCount,
                   failCount, effects, written, callVars>>

\* lines 601-608
NoInstructionProvided ==
    /\ pc = "gate"
    /\ ~takesPlanPath
    /\ noInstruction
    /\ out' = <<Line("No instruction provided.", "")>>
    /\ pc' = "done"
    /\ UNCHANGED <<messages, applied, returned, aborted, fs, modeVars, loopVars, stepVars, effects, written,
                   callVars>>

\* lines 610-617: the standard flow begins, .teddy is ensured
EnsureTeddyDir ==
    /\ pc = "gate"
    /\ ~takesPlanPath
    /\ ~noInstruction
    /\ out' = <<Line("Instruction", slice(userInstruction, 0, 100))>>
    /\ written' = written \cup {rootPath \o "/.teddy/.gitkeep"}
    /\ fs' = writeFile(fs, rootPath \o "/.teddy/.gitkeep", "")
    /\ pc' = "spec"
    /\ UNCHANGED <<messages, applied, returned, aborted, modeVars, loopVars, stepVars, effects, callVars>>

\* lines 619-663: phase 1, the specification
GenerateSpec ==
    /\ pc = "spec"
    /\ \E reply \in SpecReplies :
         /\ spec' = reply
         /\ fs' = writeFile(fs, rootPath \o "/.teddy/spec.md", reply)
    /\ specCalls' = specCalls + 1
    /\ written' = written \cup {rootPath \o "/.teddy/spec.md"}
    /\ out' = Append(out, Line("Phase 1: Analyzing task...", ""))
    /\ pc' = "plan"
    /\ UNCHANGED <<messages, applied, returned, aborted, contextContent, userInstruction, planDetection,
                   userWantsExecution, plan, contextSpec, loopVars, stepVars,
                   effects, planCalls, regenCalls, execRuns>>

\* parseSimplePlanSteps on the replies of the model, each parsed once
parsedStepsOf ==
    {<<reply, parseSimplePlanSteps(reply)>> : reply \in PlanReplies \cup RegenReplies}

\* a pipeline that goes on to the execution whatever the parse gave
PlanParsedUnchecked(parsed) ==
    /\ out' = <<Line("Phase 2: Creating execution plan...", ""),
                Line("Executing steps", "")>>
    /\ steps' = parsed
    /\ contextSpec' = spec
    /\ pc' = "snapshots"

\* lines 719-736: the parse of the plan and what follows it
PlanParsed(parsed) ==
    IF Len(parsed) = 0
    THEN /\ out' = <<Line("Phase 2: Creating execution plan...", ""),
                     Line("No actionable steps parsed. Try again with clearer request.", "")>>
         /\ pc' = "done"
         /\ UNCHANGED <<steps, contextSpec>>
    ELSE /\ out' = <<Line("Phase 2: Creating execution plan...", ""),
                     Line("Executing steps", "")>>
         /\ steps' = parsed
         /\ contextSpec' = spec
         /\ pc' = "snapshots"

\* lines 665-736: phase 2, the plan, and its parse
GeneratePlan ==
    /\ pc = "plan"
    /\ \E reply \in PlanReplies :
         /\ plan' = reply
         /\ fs' = writeFile(fs, rootPath \o "/.teddy/plan.md", reply)
         /\ PlanParsed(valueAt(parsedStepsOf, reply))
    /\ planCalls' = planCalls + 1
    /\ written' = written \cup {rootPath \o "/.teddy/plan.md"}
    /\ UNCHANGED <<messages, applied, returned, aborted, contextContent, userInstruction, planDetection,
                   userWantsExecution, spec, loopVars, stepIdx, successCount,
                   failCount, effects, specCalls, regenCalls, execRuns>>

(***************************************************************************)
(* executeStepsWithVerification                                            *)
(***************************************************************************)
\* VerificationEngine.createSnapshot(target, content)
createSnapshot(target, content) ==
    [target |-> target, beforeContent |-> content]

\* a completion that repeats the content of before the execution
completeWithBeforeContent(beforeSnapshot, afterContent) ==
    [target |-> beforeSnapshot.target,
     beforeContent |-> beforeSnapshot.beforeContent,
     afterContent |-> beforeSnapshot.beforeContent]

\* VerificationEngine.completeSnapshot(beforeSnapshot, afterContent)
completeSnapshot(beforeSnapshot, afterContent) ==
    [target |-> beforeSnapshot.target,
     beforeContent |-> beforeSnapshot.beforeContent,
     afterContent |-> afterContent]

\* a selection that takes in the files the steps create as well
isFileStep(step) ==
    ~falsy(step.target)
      /\ (step.type = "create_file" \/ step.type = "edit_file"
            \/ step.type = "insert_code")

isSnapshotStep(step) ==
    ~falsy(step.target) /\ (step.type = "edit_file" \/ step.type = "insert_code")

\* the entries of a Map filled by set(key, ...) in list order: a key keeps
\* the place of its first insertion
RECURSIVE mapKeys(_)
mapKeys(keys) ==
    IF keys = <<>> THEN <<>>
    ELSE LET rest == mapKeys(SubSeq(keys, 1, Len(keys) - 1))
             k == keys[Len(keys)]
         IN  IF \E n \in 1..Len(rest) : rest[n] = k THEN rest
             ELSE Append(rest, k)

\* a list that holds the target of every step that has one
targetsOfAllSteps(stepList) ==
    LET selected == SelectSeq(stepList, LAMBDA s : ~falsy(s.target))
    IN  [n \in 1..Len(selected) |-> selected[n].target]

targetFiles(stepList) ==
    LET selected == SelectSeq(stepList, isSnapshotStep)
    IN  [n \in 1..Len(selected) |-> selected[n].target]

\* lines 777-779: the second argument of TaskAnalyzer.analyze
allBeforeContent(snaps) ==
    join([n \in 1..Len(snaps) |->
            IF falsy(snaps[n].beforeContent) THEN "" ELSE snaps[n].beforeContent],
         "\n")

\* lines 757-787: phases A and B and the loop variables
CaptureSnapshots ==
    /\ pc = "snapshots"
    /\ snapshots' =
         LET keys == mapKeys(targetFiles(steps))
         IN  [n \in 1..Len(keys) |->
                createSnapshot(keys[n],
                               readOrEmpty(fs, rootDir \o "/" \o keys[n]))]
    /\ attempt' = 0
    /\ verificationPassed' = FALSE
    /\ lastFailedCount' = Infinity
    /\ stuckCount' = 0
    /\ pc' = "loop"
    /\ UNCHANGED <<messages, applied, returned, aborted, fs, modeVars, completedSnapshots, result, stepVars,
                   out, effects, written, callVars>>

\* lines 789-797: the loop test and the start of one attempt
StartAttempt ==
    /\ pc = "loop"
    /\ IF attempt < MAX_VERIFICATION_ATTEMPTS /\ ~verificationPassed
       THEN /\ attempt' = attempt + 1
            /\ out' = IF attempt + 1 > 1 THEN <<Line("Retry", "")>> ELSE <<>>
            /\ stepIdx' = 1
            /\ successCount' = 0
            /\ failCount' = 0
            /\ execRuns' = execRuns + 1
            /\ pc' = "step"
       ELSE /\ pc' = "summary"
            /\ UNCHANGED <<attempt, out, stepIdx, successCount, failCount,
                           execRuns>>
    /\ UNCHANGED <<messages, applied, returned, aborted, fs, modeVars, snapshots, completedSnapshots,
                   verificationPassed, lastFailedCount,
                   stuckCount, result, steps, effects, written, specCalls,
                   planCalls, regenCalls>>

(***************************************************************************)
(* executeSteps: one header line per step, then its handler.               *)
(***************************************************************************)
step == steps[stepIdx]
filePath == rootDir \o "/" \o step.target

isMalformedTarget(target) ==
    includes(target, " - ") \/ Len(target) > MAX_TARGET_LENGTH

\* a step that is started without its progress line
StepHeaderSilent ==
    /\ pc = "step"
    /\ stepIdx <= Len(steps)
    /\ out' = <<>>
    /\ effects' = <<>>
    /\ pc' = "handle"
    /\ UNCHANGED <<messages, applied, returned, aborted, fs, modeVars, loopVars, stepVars, written, callVars>>

\* line 967
StepHeader ==
    /\ pc = "step"
    /\ stepIdx <= Len(steps)
    /\ out' = <<Line("Step", IF falsy(step.target) THEN "" ELSE step.target)>>
    /\ effects' = <<>>
    /\ pc' = "handle"
    /\ UNCHANGED <<messages, applied, returned, aborted, fs, modeVars, loopVars, stepVars, written, callVars>>

\* lines 1004-1007: the end of the step list
ExecuteStepsEnd ==
    /\ pc = "step"
    /\ stepIdx > Len(steps)
    /\ out' = IF failCount > 0 THEN <<Line("steps failed", "")>> ELSE <<>>
    /\ stepIdx' = 0 /\ successCount' = 0 /\ failCount' = 0
    /\ effects' = <<>>
    /\ pc' = "verify"
    /\ UNCHANGED <<messages, applied, returned, aborted, fs, modeVars, loopVars, steps, written, callVars>>

\* the handler returned: successCount++ and the next step
Returned(lines, calls) ==
    /\ out' = out \o lines
    /\ effects' = effects \o calls
    /\ successCount' = successCount + 1
    /\ failCount' = failCount
    /\ stepIdx' = stepIdx + 1
    /\ pc' = "step"

\* a catch that reports and abandons the rest of the list
ThrewAndAborted(reason, calls) ==
    /\ out' = Append(out, Line("Failed:", reason))
    /\ effects' = effects \o calls
    /\ successCount' = successCount
    /\ failCount' = failCount + 1
    /\ stepIdx' = Len(steps) + 1
    /\ pc' = "step"

\* the handler threw: the catch of executeSteps reports and goes on
Threw(reason, calls) ==
    /\ out' = Append(out, Line("Failed:", reason))
    /\ effects' = effects \o calls
    /\ successCount' = successCount
    /\ failCount' = failCount + 1
    /\ stepIdx' = stepIdx + 1
    /\ pc' = "step"

StreamError == "\f<stream error>"

\* await ide.writeFile(path, content); await ide.openFile(path); then the
\* line that reports it: each of the two calls may throw
WriteAndOpen(path, content, doneLine, calls) ==
    /\ written' = written \cup {path}
    /\ \/ /\ fs' = fs
          /\ Threw("writeFile throws", calls \o <<Call("writeFile", path)>>)
       \/ /\ fs' = writeFile(fs, path, content)
          /\ \/ Threw("openFile throws",
                      calls \o <<Call("writeFile", path), Call("openFile", path)>>)
             \/ Returned(<<doneLine>>,
                         calls \o <<Call("writeFile", path),
                                    Call("openFile", path)>>)

\* cleanCodeContent on the replies of the model, each cleaned once
cleanedOf == {<<reply, cleanCodeContent(reply)>> : reply \in CodeReplies}

\* a fallback that asks the model for the content of the missing file
CreateFromCompletion(calls) ==
    \E reply \in CodeReplies :
        WriteAndOpen(filePath, valueAt(cleanedOf, reply),
                     Line("Created:", step.target),
                     calls \o <<Call("streamComplete", "create")>>)

\* lines 1074-1080 and 1260-1265: the target does not exist and is created
\* with the code block of the step
CreateFromBlock(calls) ==
    WriteAndOpen(filePath, step.codeBlock, Line("Created:", step.target), calls)

\* lines 1010-1049
HandleCreateFile ==
    /\ pc = "handle"
    /\ step.type = "create_file"
    /\ IF falsy(step.target)
       THEN /\ Returned(<<Line("No target file specified", "")>>, <<>>)
            /\ UNCHANGED <<fs, written>>
       ELSE \E reply \in CodeReplies \cup {StreamError} :
              IF reply = StreamError
              THEN /\ Threw("stream error", <<Call("streamComplete", "create")>>)
                   /\ UNCHANGED <<fs, written>>
              ELSE WriteAndOpen(filePath, valueAt(cleanedOf, reply),
                                Line("Created:", step.target),
                                <<Call("streamComplete", "create")>>)
    /\ UNCHANGED <<messages, applied, returned, aborted, modeVars, loopVars, steps, callVars>>

\* lines 1051-1233
HandleInsertCode ==
    /\ pc = "handle"
    /\ step.type = "insert_code"
    /\ IF falsy(step.target) \/ falsy(step.codeBlock)
       THEN /\ Returned(<<Line("Missing target or code block", "")>>, <<>>)
            /\ UNCHANGED <<fs, written>>
       ELSE IF isMalformedTarget(step.target)
       THEN /\ Returned(<<Line("Invalid target path detected:",
                               slice(step.target, 0, 50)),
                          Line("This appears to be a malformed path. Skipping step.", "")>>,
                        <<>>)
            /\ UNCHANGED <<fs, written>>
       ELSE IF ~fileExists(fs, filePath)
       THEN CreateFromBlock(<<Call("readFile", filePath)>>)
       ELSE WriteAndOpen(filePath,
                insertCode(fs[filePath], step.description, step.codeBlock).newContent,
                Line("Modified:", step.target),
                <<Call("readFile", filePath)>>)
    /\ UNCHANGED <<messages, applied, returned, aborted, modeVars, loopVars, steps, callVars>>

editCalls == <<Call("readFile", filePath), Call("streamComplete", "edit")>>

\* a rewrite that is written whatever its length
EditGeneratedUnguarded(newContent) ==
    WriteAndOpen(filePath, newContent, Line("Modified:", step.target), editCalls)

\* lines 1316-1328: the generated content is written unless it is too short
EditGenerated(newContent) ==
    IF Len(newContent) < MIN_CONTENT_LENGTH
    THEN /\ Returned(<<Line("Generated content too short, keeping original file", "")>>,
                     editCalls)
         /\ UNCHANGED <<fs, written>>
    ELSE WriteAndOpen(filePath, newContent, Line("Modified:", step.target),
                      editCalls)

\* lines 1235-1329
HandleEditFile ==
    /\ pc = "handle"
    /\ step.type = "edit_file"
    /\ IF falsy(step.target)
       THEN /\ Returned(<<Line("No target file specified", "")>>, <<>>)
            /\ UNCHANGED <<fs, written>>
       ELSE IF isMalformedTarget(step.target)
       THEN /\ Returned(<<Line("Invalid target path detected:",
                               slice(step.target, 0, 50)),
                          Line("This appears to be a malformed path. Skipping step.", "")>>,
                        <<>>)
            /\ UNCHANGED <<fs, written>>
       ELSE IF ~fileExists(fs, filePath)
       THEN IF ~falsy(step.codeBlock)
            THEN CreateFromBlock(<<Call("readFile", filePath)>>)
            ELSE /\ Returned(<<Line("File not found:", step.target)>>,
                             <<Call("readFile", filePath)>>)
                 /\ UNCHANGED <<fs, written>>
       ELSE \E reply \in CodeReplies \cup {StreamError} :
              IF reply = StreamError
              THEN /\ Threw("stream error", editCalls)
                   /\ UNCHANGED <<fs, written>>
              ELSE EditGenerated(valueAt(cleanedOf, reply))
    /\ UNCHANGED <<messages, applied, returned, aborted, modeVars, loopVars, steps, callVars>>

\* lines 1331-1346
HandleRunCommand ==
    /\ pc = "handle"
    /\ step.type = "run_command"
    /\ IF falsy(step.target)
       THEN Returned(<<Line("No command specified", "")>>, <<>>)
       ELSE \E ok \in BOOLEAN :
              Returned(<<IF ok THEN Line("Ran:", step.target)
                         ELSE Line("Command failed:", step.target)>>,
                       <<Call("runCommand", step.target)>>)
    /\ UNCHANGED <<messages, applied, returned, aborted, fs, modeVars, loopVars, steps, written, callVars>>

\* lines 991-993
HandleAnalyze ==
    /\ pc = "handle"
    /\ step.type = "analyze"
    /\ out' = Append(out, Line("Skipped (analysis)", ""))
    /\ stepIdx' = stepIdx + 1
    /\ pc' = "step"
    /\ UNCHANGED <<messages, applied, returned, aborted, fs, modeVars, loopVars, steps, successCount,
                   failCount, effects, written, callVars>>

(***************************************************************************)
(* The verification of one attempt (phases D and E) and what follows it.   *)
(***************************************************************************)
\* VerificationResult, as far as the loop reads it: passed, and the
\* criteriaResults that did not pass
VerificationResult(failed) ==
    [passed |-> failed = {}, failed |-> failed, suggestions |-> <<>>]

\* a listing that stops after the first failing criterion
firstFailedCriterion(res) ==
    SubSeq(SelectSeq([c \in 1..MaxCriteria |-> c], LAMBDA c : c \in res.failed),
           1, 1)

\* result.criteriaResults.filter((c) => !c.passed), in the order of the
\* criteria
failedCriteria(res) ==
    SelectSeq([c \in 1..MaxCriteria |-> c], LAMBDA c : c \in res.failed)

\* a loop whose ceiling is 3 attempts
shouldStopAtThird(n, stuck) == n >= 3 \/ stuck >= 2

\* a loop that gives up on the stuck rule alone
shouldStopWhenStuck(n, stuck) == stuck >= 2

\* line 854
shouldStop(n, stuck) == n >= MAX_VERIFICATION_ATTEMPTS \/ stuck >= 2

\* a stuck counter that is never reset
stuckCountNeverReset(currentFailedCount, last, stuck) == stuck + 1

\* lines 842-846
nextStuckCount(currentFailedCount, last, stuck) ==
    IF currentFailedCount >= last THEN stuck + 1 ELSE 0

\* lines 799-875: after snapshots, the result, progress tracking and the
\* decision to retry or to stop
Verify ==
    /\ pc = "verify"
    /\ completedSnapshots' =
         [n \in 1..Len(snapshots) |->
            completeSnapshot(snapshots[n],
                readOrEmpty(fs, rootDir \o "/" \o snapshots[n].target))]
    /\ \E failed \in SUBSET Criteria :
         LET res == VerificationResult(failed)
             currentFailedCount == Len(failedCriteria(res))
             stuck == nextStuckCount(currentFailedCount, lastFailedCount,
                                     stuckCount)
         IN  /\ result' = res
             /\ IF res.passed
                THEN /\ verificationPassed' = TRUE
                     /\ out' = <<Line("Verifying changes...", ""),
                                 Line("Verified complete!", "")>>
                     /\ pc' = "loop"
                     /\ UNCHANGED <<stuckCount, lastFailedCount>>
                ELSE /\ verificationPassed' = verificationPassed
                     /\ stuckCount' = stuck
                     /\ lastFailedCount' = currentFailedCount
                     /\ IF ~shouldStop(attempt, stuck)
                        THEN /\ out' = <<Line("Verifying changes...", ""),
                                         Line("issue(s) remaining", ""),
                                         Line("retrying...", "")>>
                             /\ pc' = "regenerate"
                        ELSE /\ out' = <<Line("Verifying changes...", ""),
                                         Line("issue(s) remaining", ""),
                                         Line("Issues requiring manual review", "")>>
                                       \o [n \in 1..currentFailedCount |->
                                             Line("criterion", failedCriteria(res)[n])]
                             /\ pc' = "summary"
    /\ UNCHANGED <<messages, applied, returned, aborted, fs, modeVars, snapshots, attempt, stepVars, effects,
                   written, callVars>>

\* lines 889-941
primaryFile ==
    IF Len(completedSnapshots) > 0 THEN completedSnapshots[1].target
    ELSE "unknown"

\* a repair of the targets that look like a path and a description
fixDashedTarget(s) ==
    IF ~falsy(s.target) /\ includes(s.target, " - ")
    THEN [s EXCEPT !.target = primaryFile]
    ELSE s

fixTarget(s) ==
    IF ~falsy(s.target) /\ includes(s.target, " ")
    THEN [s EXCEPT !.target = primaryFile]
    ELSE s

fixTargets(parsed) == [n \in 1..Len(parsed) |-> fixTarget(parsed[n])]

regenerateStepsWithFeedback(response) == 
    fixTargets(valueAt(parsedStepsOf, response))

\* lines 860-866: the steps of the next attempt; the snapshots and the
\* result of this attempt are locals of the loop body, which ends here
RegenerateSteps ==
    /\ pc = "regenerate"
    /\ \E response \in RegenReplies :
         steps' = regenerateStepsWithFeedback(response)
    /\ completedSnapshots' = <<>>
    /\ result' = NoResult
    /\ regenCalls' = regenCalls + 1
    /\ pc' = "loop"
    /\ UNCHANGED <<messages, applied, returned, aborted, fs, modeVars, snapshots, attempt,
                   verificationPassed, lastFailedCount, stuckCount, stepIdx,
                   successCount, failCount, out, effects, written, specCalls,
                   planCalls, execRuns>>

\* lines 877-883
FinalSummary ==
    /\ pc = "summary"
    /\ out' = out \o <<Line("---", ""),
                       IF verificationPassed THEN Line("Done!", "")
                       ELSE Line("Partially completed", "")>>
    /\ pc' = "done"
    /\ UNCHANGED <<messages, applied, returned, aborted, fs, modeVars, loopVars, stepVars, effects, written,
                   callVars>>

\* a completion stream that is drained outside any try block (lines 652,
\* 708 and 925) throws: the exception leaves autonomousMode
StreamThrows ==
    /\ pc \in {"spec", "plan", "regenerate"}
    /\ pc' = "thrown"
    /\ specCalls' = IF pc = "spec" THEN specCalls + 1 ELSE specCalls
    /\ planCalls' = IF pc = "plan" THEN planCalls + 1 ELSE planCalls
    /\ regenCalls' = IF pc = "regenerate" THEN regenCalls + 1 ELSE regenCalls
    /\ UNCHANGED <<messages, applied, returned, aborted, fs, modeVars, loopVars, stepVars, out, effects,
                   written, execRuns>>

\* the driving loop signals cancellation: abortController.abort() on the
\* controller handed to llmStreamChat.  The delegation to autonomousMode
\* (gpu.ts, lines 553-564) hands on neither the controller nor its signal
\* and does not read signal.aborted between the chunks, and no statement
\* of autonomousMode reads it: no action of the pipeline has it in a guard.
Abort ==
    /\ pc \notin {"done", "thrown", "call", "returned"}
    /\ ~aborted
    /\ attempt <= MaxAbortAttempt
    /\ aborted' = TRUE
    /\ UNCHANGED <<pc, pipelineVars, applied, returned>>

\* the steps of autonomousMode and of what it calls
Pipeline ==
    \/ DetectPlan
    \/ PlanExecutionMode
    \/ NoInstructionProvided
    \/ EnsureTeddyDir
    \/ GenerateSpec
    \/ GeneratePlan
    \/ CaptureSnapshots
    \/ StartAttempt
    \/ StepHeader
    \/ HandleCreateFile
    \/ HandleInsertCode
    \/ HandleEditFile
    \/ HandleRunCommand
    \/ HandleAnalyze
    \/ ExecuteStepsEnd
    \/ Verify
    \/ RegenerateSteps
    \/ FinalSummary
    \/ StreamThrows

Next ==
    \/ Pipeline
    \/ Abort

Spec == Init /\ [][Next]_vars

\* one thread of control: every await of the pipeline returns or throws,
\* so a step of the pipeline that can be taken is taken; nothing makes the
\* driving loop signal a cancellation
FairSpec == Spec /\ WF_vars(Pipeline)


(***************************************************************************)
(* The functions of the module applied on their own.  An argument is drawn *)
(* from a bounded set, the function is applied to it once, and the value   *)
(* it returns is kept next to the argument.                                *)
(***************************************************************************)
\* a machine-format plan line put together from its pieces
planLine(indent, lead, gap, verb, colon, rest) ==
    indent \o lead \o gap \o verb \o colon \o rest

LineIndents == {"", "  "}
LineLeads == {"1.", "12.", "-", "*", "1)", ""}
LineGaps == {"", " "}
LineVerbs == {"CREATE_FILE", "edit_file", "Run_Command", "ANALYZE", "DELETE_FILE"}
LineColons == {":", ": ", ""}
LineTargets == {"src/a.ts", "lib/b.test.js"}
LineSeparators == {" | ", "|", " - ", ""}
LineDescriptions == {"entry point", "Fix null check"}
LinesBefore == {"", "Plan:\n", "1. EDIT_FILE: src/x.ts | fix\n"}

SimplePlanCalls ==
    {[fn |-> "parseSimplePlanSteps",
      content |-> before \o planLine(indent, lead, gap, verb, colon,
                                     target \o sep \o (IF sep = "" THEN "" ELSE desc)),
      before |-> before, indent |-> indent, lead |-> lead, verb |-> verb,
      colon |-> colon, target |-> target, sep |-> sep, description |-> desc] :
        before \in LinesBefore, indent \in LineIndents, lead \in LineLeads,
        gap \in LineGaps, verb \in LineVerbs, colon \in LineColons,
        target \in LineTargets, sep \in LineSeparators, desc \in LineDescriptions}

\* texts with plan markers, each shorter than the detection threshold
MarkedTexts ==
    { "",
      "Please have a look at the error handling.",
      "1. CREATE_FILE: src/a.ts | entry point",
      "- edit_file: src/x.ts - fix\n- RUN_COMMAND: npm test",
      "## Step 1: Update f\n**Target:** src/x.ts\n" \o FENCE \o "ts\nf();\n" \o FENCE \o "\n",
      "**Goal:** g\n**Action:** Add\n" \o FENCE \o "bash\nnpm test\n" \o FENCE \o "\n",
      "1. **Update** " \o BQ \o "src/x.ts" \o BQ \o "\n" \o FENCE \o "ts\nf();\n" \o FENCE \o "\n",
      "### Task A: tidy\n**Target File:** src/x.ts\n**Action:** Create the file\n" }

TextLengths == {0, 60, 98, 99, 100, 101, 140}

\* the text filled with blanks up to n characters
padTo(text, n) ==
    IF Len(text) >= n THEN text ELSE text \o repeat(" ", n - Len(text))

DetectCalls ==
    {[fn |-> "detectPlanDocument", content |-> padTo(text, n)] :
        text \in MarkedTexts, n \in TextLengths}

\* plan texts with one fenced shell block of two command lines, under a
\* step header or on its own
ShellHeaders == {"", "## Step 1: Run the tests\n", "## Step 3: Install and build\n\nRun these:\n"}
ShellLangs == {"bash", "sh", "shell"}
CommandPairs == {<<"npm install", "npm test">>, <<"make", "  make check">>}
CommandFillers == {"", "# then\n", "\n"}
ShellTrailers == {"", "## Acceptance\nall green\n"}

shellBlockText(lang, commands, filler) ==
    FENCE \o lang \o "\n" \o commands[1] \o "\n" \o filler \o commands[2] \o "\n"
      \o FENCE \o "\n"

ShellBlockCalls ==
    {[fn |-> "parseTeddySpecSteps",
      content |-> header \o shellBlockText(lang, commands, filler) \o trailer,
      header |-> header, commands |-> commands] :
        header \in ShellHeaders, lang \in ShellLangs, commands \in CommandPairs,
        filler \in CommandFillers, trailer \in ShellTrailers}

\* plan texts with one numbered bold-lead-in item that refers to a file in
\* its details and carries one fenced block
ItemLeads == {"", "Notes for the reviewer.\n\n"}
ItemNumbers == {"1", "12"}
ItemTitles == {"Update error handling", "Fix the null check", "Rename and move",
               "Add logging", "Locate the handler"}
ItemColons == {":", ""}
\* the details of an item and the file they refer to
ItemDetails ==
    { <<"Wrap the calls in " \o BQ \o "src/x.ts" \o BQ, "src/x.ts">>,
      <<"Wrap the calls in try/catch at src/x.ts.", "src/x.ts">>,
      <<"Apply this to lib/b.test.js", "lib/b.test.js">>,
      <<"Taken from the file " \o BQ \o "src/util/c.ts" \o BQ \o " of the module", "src/util/c.ts">> }
ItemLangs == {"ts", "typescript", "python", "", "bash"}
ItemCodes == {"f();", "class A {}\n// in: other.ts"}

itemText(number, title, colon, details, lang, code) ==
    number \o ". **" \o title \o "**" \o colon \o " " \o details \o "\n"
      \o FENCE \o lang \o "\n" \o code \o "\n" \o FENCE \o "\n"

NumberedItemCalls ==
    {[fn |-> "parseTeddySpecSteps",
      content |-> lead \o itemText(number, title, colon, details[1], lang, code),
      title |-> title, reference |-> details[2], lang |-> lang, code |-> code] :
        lead \in ItemLeads, number \in ItemNumbers, title \in ItemTitles,
        colon \in ItemColons, details \in ItemDetails, lang \in ItemLangs,
        code \in ItemCodes}

\* numbered items whose details refer to no file
UnreferencedItemCalls ==
    {[fn |-> "parseTeddySpecSteps",
      content |-> itemText("1", title, ":", "Wrap the calls carefully.", lang, code),
      title |-> title, lang |-> lang, code |-> code] :
        title \in ItemTitles, lang \in {"ts", "python", "bash"}, code \in ItemCodes}

\* plan texts with a shell block that holds no command
EmptyShellCalls ==
    {[fn |-> "parseTeddySpecSteps", content |-> header \o FENCE \o lang \o "\n" \o FENCE \o "\n"] :
        header \in ShellHeaders, lang \in ShellLangs}

\* machine-format lines with nothing where the target is expected
BareLines ==
    { "1. CREATE_FILE: | entry point",
      "1. EDIT_FILE:  ",
      "1. RUN_COMMAND: " \o BQ,
      "- RUN_COMMAND: | list the files",
      "1. ANALYZE: | the layout" }

BareLineCalls == {[fn |-> "parseSimplePlanSteps", content |-> line] : line \in BareLines}

\* existing files for the insertion locator
ExistingFiles ==
    { "",
      "function f() {\n  g();\n}\n",
      "\n\nconst a = 1;\n",
      "// import later\nlet a;\n",
      "import g from 'g';\nfunction f() {\n  g();\n}\n",
      "use std::io;\nuse std::fs;\n\nfn main() {}\n",
      "/* header */\n#include <stdio.h>\nint main() { return 0; }\n",
      "class A {\n  foo() {\n    if (x) { y(); }\n  }\n  bar() {}\n}\n",
      "function handleError(e) {\n  log(e);\n}\nmain();\n",
      "const foo = 1;\nfunction bar() { return foo; }\n",
      "function f() {\n  if (x) {\n    g();\n}\n",
      "foo;\nbar;\n" }

\* descriptions of insert_code steps, each with the name it refers to ("" when
\* it refers to none)
InsertDescriptions ==
    { <<"Add the helper after imports", "">>,
      <<"Insert after the import statements", "">>,
      <<"Put it at the top", "">>,
      <<"Add a log helper", "">>,
      <<"Add at line 2", "">>,
      <<"Add a guard in the f function", "">>,
      <<"Add helper after foo", "foo">>,
      <<"Place it after the " \o BQ \o "f" \o BQ \o " function", "f">>,
      <<"Add a handler after handleError", "handleError">>,
      <<"Append following bar", "bar">> }

CodeBlocks == {"function log() {}", "const n = 1;\nconst m = 2;", "if (ok) {"}

InsertCalls ==
    {[fn |-> "insertCode", existingContent |-> file,
      description |-> desc[1], name |-> desc[2], codeBlock |-> code] :
        file \in ExistingFiles, desc \in InsertDescriptions, code \in CodeBlocks}

\* descriptions that name a line, each with the number named
LineRequests ==
    { <<"Add at line 0", 0>>,
      <<"Insert it at line 1", 1>>,
      <<"Add at line 2", 2>>,
      <<"Put the block around line 4", 4>>,
      <<"Add at line 99", 99>> }

LineInsertCalls ==
    {[fn |-> "insertCode", existingContent |-> file,
      description |-> request[1], name |-> "", lineNum |-> request[2],
      codeBlock |-> code] :
        file \in ExistingFiles, request \in LineRequests, code \in CodeBlocks}

\* insert_code steps handed to handleInsertCode, each on a workspace that
\* holds the target with the drawn content
InsertTarget == "src/x.ts"

HandlerCalls ==
    {[fn |-> "handleInsertCode", existingContent |-> file,
      description |-> description, codeBlock |-> code] :
        file \in ExistingFiles,
        description \in {d[1] : d \in InsertDescriptions}
                          \cup {r[1] : r \in LineRequests},
        code \in CodeBlocks}

\* user turns: a string, or up to three parts, each a text or an image
FragmentTexts == {"", "fix it", "implement the steps above", "## Step 1: Update\n\nbody"}
MessageParts == {TextPart(text) : text \in FragmentTexts} \cup {ImagePart}
MaxParts == 3

PartLists ==
    UNION {[1..n -> MessageParts] : n \in 0..MaxParts}

ExtractCalls ==
    {[fn |-> "extractTextContent", message |-> User(ArrayContent(parts))] :
        parts \in PartLists}
      \cup {[fn |-> "extractTextContent", message |-> User(StringContent(text))] :
               text \in FragmentTexts}
      \cup {[fn |-> "extractTextContent", message |-> User(NoContent)]}

Calls == SimplePlanCalls \cup DetectCalls \cup ShellBlockCalls \cup NumberedItemCalls
           \cup InsertCalls \cup ExtractCalls \cup UnreferencedItemCalls
           \cup EmptyShellCalls \cup BareLineCalls \cup LineInsertCalls
           \cup HandlerCalls

FunctionsInit ==
    /\ applied \in Calls
    /\ returned = NoValue
    /\ pc = "call"
    /\ fs = Empty /\ messages = <<>>
    /\ InitLocals
    /\ aborted = FALSE

Return(value) ==
    /\ returned' = [fn |-> applied.fn, value |-> value]
    /\ pc' = "returned"
    /\ UNCHANGED <<applied, pipelineVars, aborted>>

ApplyParseSimplePlanSteps ==
    /\ pc = "call" /\ applied.fn = "parseSimplePlanSteps"
    /\ Return(parseSimplePlanSteps(applied.content))

ApplyDetectPlanDocument ==
    /\ pc = "call" /\ applied.fn = "detectPlanDocument"
    /\ Return(detectPlanDocument(applied.content))

ApplyParseTeddySpecSteps ==
    /\ pc = "call" /\ applied.fn = "parseTeddySpecSteps"
    /\ Return(parseTeddySpecSteps(applied.content))

ApplyInsertCode ==
    /\ pc = "call" /\ applied.fn = "insertCode"
    /\ Return(insertCode(applied.existingContent, applied.description,
                         applied.codeBlock))

\* lines 957-977: executeSteps comes to the drawn insert_code step, the
\* one step of its list, on the workspace that holds the drawn file
ApplyHandleInsertCode ==
    /\ pc = "call" /\ applied.fn = "handleInsertCode"
    /\ fs' = [path \in {rootDir \o "/" \o InsertTarget} |->
                applied.existingContent]
    /\ steps' = <<PlanStep(1, "insert_code", InsertTarget, applied.description,
                           applied.codeBlock)>>
    /\ stepIdx' = 1
    /\ pc' = "handle"
    /\ UNCHANGED <<messages, applied, returned, aborted, modeVars, loopVars,
                   successCount, failCount, out, effects, written, callVars>>

ApplyExtractTextContent ==
    /\ pc = "call" /\ applied.fn = "extractTextContent"
    /\ Return(extractTextContent(applied.message))

FunctionsNext ==
    \/ ApplyHandleInsertCode
    \/ HandleInsertCode
    \/ ApplyExtractTextContent
    \/ ApplyParseSimplePlanSteps
    \/ ApplyParseTeddySpecSteps
    \/ ApplyInsertCode
    \/ ApplyDetectPlanDocument

FunctionsSpec == FunctionsInit /\ [][FunctionsNext]_vars


(***************************************************************************)
(* The properties checked.                                                 *)
(***************************************************************************)
\* the step is the cancellation signal of the driving loop: it is no step
\* of the pipeline and leaves everything but the signal as it is
signalled == aborted' # aborted

summaryLine == out[Len(out)]
failingCount(res) == Cardinality(res.failed)

\* C1, as stated: whenever an attempt fails verification with the same
\* number of failing criteria as the attempt before it, the loop gives up
\* after it instead of regenerating steps.
C1_GivesUpOnSecondEqualCount ==
    [][signalled \/ ((pc = "verify" /\ ~result'.passed
                        /\ failingCount(result') = lastFailedCount)
                     => pc' = "summary")]_vars

\* C1, amended: after a failing attempt the loop gives up exactly when the
\* attempt is the 10th or is the second in a row whose number of failing
\* criteria did not drop below that of the attempt before it; two equal
\* counts alone lead to a regeneration.
C1_GivesUpWhenStuckTwice ==
    [][signalled \/ ((pc = "verify" /\ ~result'.passed)
                     => /\ pc' \in {"summary", "regenerate"}
                        /\ pc' = "summary"
                             <=> \/ attempt = MAX_VERIFICATION_ATTEMPTS
                                 \/ /\ stuckCount >= 1
                                    /\ failingCount(result') >= lastFailedCount)]_vars

\* the loop gave up on the stuck rule after its third attempt
C1_GaveUpStuck ==
    pc = "summary" /\ ~verificationPassed /\ attempt = 3 /\ stuckCount = 2

\* C2: the attempt counter never exceeds 10, executeSteps is run at most 10
\* times, and the regeneration is invoked at most 9 times and never after
\* the 10th attempt.
C2_RetryCeiling ==
    /\ attempt <= MAX_VERIFICATION_ATTEMPTS
    /\ execRuns <= MAX_VERIFICATION_ATTEMPTS
    /\ regenCalls <= MAX_VERIFICATION_ATTEMPTS - 1
    /\ pc = "regenerate" => attempt < MAX_VERIFICATION_ATTEMPTS

\* the 10th attempt failed after 9 regenerations
C2_CeilingReached ==
    /\ pc = "summary" /\ ~verificationPassed
    /\ attempt = MAX_VERIFICATION_ATTEMPTS /\ execRuns = MAX_VERIFICATION_ATTEMPTS
    /\ regenCalls = MAX_VERIFICATION_ATTEMPTS - 1 /\ stuckCount < 2

\* the final summary of the loop, after a passed verification or after the
\* loop gave up at the ceiling or stuck
reachedSummary ==
    /\ pc = "done" /\ attempt >= 1
    /\ summaryLine.kind \in {"Done!", "Partially completed"}
    /\ \/ verificationPassed
       \/ attempt = MAX_VERIFICATION_ATTEMPTS
       \/ stuckCount >= 2

listsCriterion(line, c) == line.kind = "criterion" /\ line.text = c

criterionLine(c) ==
    IF \E n \in 1..Len(out) : listsCriterion(out[n], c)
    THEN CHOOSE n \in 1..Len(out) : listsCriterion(out[n], c)
    ELSE 0

\* C4: the final summary says Done exactly when the verification of the
\* last attempt passed; otherwise every failing criterion of that
\* verification is listed before the summary, which reports partial
\* completion.
C4_NoSilentSuccess ==
    (pc = "done" /\ attempt >= 1)
    => /\ summaryLine.kind = "Done!" <=> result.passed
       /\ result.passed <=> verificationPassed
       /\ ~result.passed
            => /\ summaryLine.kind = "Partially completed"
               /\ \A c \in result.failed :
                    criterionLine(c) > 0 /\ criterionLine(c) < Len(out)

\* the loop ended with every criterion failing and listed
C4_PartialWithAllFailing ==
    /\ pc = "done" /\ attempt >= 1 /\ result.failed = Criteria
    /\ summaryLine.kind = "Partially completed"

\* the newest user turn of the history
newestUserTurn == lastUserMessage(messages, Len(messages))

\* a prior assistant turn holds the teddy-spec plan and the newest user turn
\* is the bare instruction "implement the steps above"
planInPriorAssistantTurn ==
    /\ \E n \in 1..Len(messages) : messages[n] = Assistant(PlanDocEdit)
    /\ newestUserTurn.content = StringContent(ExecuteInstruction)

\* the newest user turn itself carries the plan as a text fragment ahead of
\* the instruction "implement the steps above"
planInUserTurn ==
    newestUserTurn.content =
        ArrayContent(<<TextPart(PlanDocEdit), TextPart(ExecuteInstruction)>>)

teddyFiles == {rootPath \o "/.teddy/.gitkeep", rootPath \o "/.teddy/spec.md",
               rootPath \o "/.teddy/plan.md"}

\* edit_file handling of src/x.ts is under way and the specification phase
\* was never entered
editsPlanTarget ==
    /\ step.type = "edit_file" /\ step.target = "src/x.ts"
    /\ planDetection.format = "teddy_spec"
    /\ specCalls = 0 /\ planCalls = 0 /\ written \cap teddyFiles = {}

\* C5, as stated: with the plan in a prior assistant turn and the newest user
\* turn "implement the steps above", the plan is detected, the gate passes and
\* no specification or plan call is made.
C5_PlanInAssistantTurnExecuted ==
    (planInPriorAssistantTurn /\ pc # "autonomousMode")
        => /\ planDetection.isPlanDocument
           /\ takesPlanPath
           /\ specCalls = 0 /\ planCalls = 0

\* C5, amended: only the newest user turn is read.  When the plan is a text
\* fragment of that turn ahead of the instruction, the plan is detected, the
\* gate passes, and the first attempt handles an edit_file step on src/x.ts
\* with no specification or plan call and no .teddy file written; a plan that
\* is only in a prior assistant turn is not seen at all (empty context, no
\* detection).
C5_PlanInUserTurnExecuted ==
    /\ (planInUserTurn /\ pc # "autonomousMode")
         => /\ planDetection.isPlanDocument
            /\ takesPlanPath
            /\ specCalls = 0 /\ planCalls = 0
            /\ (pc = "handle" /\ attempt = 1) => editsPlanTarget
    /\ (planInPriorAssistantTurn /\ pc # "autonomousMode")
         => /\ contextContent = ""
            /\ ~planDetection.isPlanDocument
            /\ ~takesPlanPath

C5_EditFileOnPlanTarget ==
    /\ planInUserTurn
    /\ pc = "handle" /\ attempt = 1
    /\ editsPlanTarget
    /\ Len(effects) = 0

\* the direct path was taken: the step list executed is the one the detector
\* parsed from the context, and no specification or plan was asked for or
\* written
directPath ==
    /\ specCalls = 0 /\ planCalls = 0
    /\ written \cap {rootPath \o "/.teddy/spec.md", rootPath \o "/.teddy/plan.md"} = {}

\* C6: past the gate, the pipeline is on the direct path exactly when the
\* context was detected as a plan document and the instruction expresses
\* execution intent; otherwise, with a non-trivial instruction, execution is
\* reached only through one specification call and one plan call whose
\* results were written; with an empty context the direct path is never taken.
C6_ExecutionGate ==
    pc \in {"snapshots", "loop", "step", "handle", "verify", "regenerate", "summary"}
        => /\ directPath <=> planDetection.isPlanDocument /\ userWantsExecution
           /\ ~directPath
                => /\ ~noInstruction
                   /\ specCalls = 1 /\ planCalls = 1
                   /\ {rootPath \o "/.teddy/spec.md", rootPath \o "/.teddy/plan.md"}
                        \subseteq written
           /\ contextContent = "" => ~directPath

\* an execution-intent instruction without context went the standard way
C6_StandardFlowDespiteIntent ==
    /\ pc = "handle"
    /\ contextContent = "" /\ userWantsExecution
    /\ specCalls = 1 /\ planCalls = 1

\* the plan phase returned a text from which no step is parsed
planWithoutSteps ==
    /\ planCalls = 1 /\ pc # "plan" /\ pc # "thrown"
    /\ Len(valueAt(parsedStepsOf, plan)) = 0

noStepRun == steps = <<>> /\ execRuns = 0 /\ attempt = 0 /\ effects = <<>>

\* C7, as stated: when no step is parsed from the plan the pipeline reports
\* it and stops, no step is run, and no writeFile call was made before.
C7_NoWriteBeforeParseFailure ==
    planWithoutSteps
        => /\ pc = "done"
           /\ summaryLine.kind = "No actionable steps parsed. Try again with clearer request."
           /\ noStepRun
           /\ written = {}

\* C7, amended: when no step is parsed from the plan the pipeline reports it
\* and stops with no step run or made up; the only writeFile calls made are
\* those of .teddy/.gitkeep, .teddy/spec.md and .teddy/plan.md, all three
\* made before the parse.
C7_OnlyTeddyFilesBeforeParseFailure ==
    planWithoutSteps
        => /\ pc = "done"
           /\ summaryLine.kind = "No actionable steps parsed. Try again with clearer request."
           /\ noStepRun
           /\ written = teddyFiles

C7_StoppedOnUnparsablePlan ==
    /\ planWithoutSteps
    /\ pc = "done"
    /\ plan = "I cannot produce a plan."
    /\ written = teddyFiles

handlerNext == HandleCreateFile \/ HandleInsertCode \/ HandleEditFile
                 \/ HandleRunCommand \/ HandleAnalyze

\* the line that closes the report of a step that failed
failureReported ==
    /\ out'[Len(out')].kind = "Failed:"
    /\ out'[Len(out')].text # ""

\* C8: whatever a handler does (returns, skips, or throws on a stream, write,
\* open or read failure), the step list is undisturbed and the next step of
\* the list is the one started next; a step is started only at its place in
\* the list, and every failure carries a reason.
C8_StepErrorsAreLocal ==
    [][signalled \/ (/\ (pc = "handle")
                          => /\ handlerNext
                             /\ pc' = "step"
                             /\ stepIdx' = stepIdx + 1
                             /\ steps' = steps
                             /\ successCount' + failCount' \in
                                  {successCount + failCount, successCount + failCount + 1}
                             /\ failCount' # failCount => failureReported
                     /\ (pc = "step" /\ stepIdx <= Len(steps))
                          => pc' = "handle" /\ stepIdx' = stepIdx /\ steps' = steps
                     /\ (pc = "step" /\ stepIdx > Len(steps)) => pc' = "verify")]_vars

\* a later step is started after an earlier step of the same run failed
C8_StartedAfterFailure ==
    /\ pc = "handle" /\ stepIdx >= 2 /\ failCount >= 1

\* an edit_file step whose target is an existing file is about to be handled
editsExistingFile ==
    /\ pc = "handle" /\ step.type = "edit_file"
    /\ ~falsy(step.target) /\ ~isMalformedTarget(step.target)
    /\ fileExists(fs, filePath)

writeIssued(calls, path) ==
    \E n \in 1..Len(calls) : calls[n] = Call("writeFile", path)

tooShortWarned(lines) ==
    lines[Len(lines)].kind = "Generated content too short, keeping original file"

\* C9: an edit_file step on an existing file either fails on its stream, or
\* warns that the generated content is too short, issues no writeFile and
\* leaves the workspace as it was, or issues a writeFile whose content is a
\* fence-stripped completion of at least 10 characters.
C9_ShortRewriteKeepsFile ==
    [][signalled \/ (editsExistingFile
                       => \/ /\ out'[Len(out')].kind = "Failed:"
                             /\ out'[Len(out')].text = "stream error"
                             /\ fs' = fs /\ ~writeIssued(effects', filePath)
                          \/ /\ tooShortWarned(out')
                             /\ fs' = fs /\ written' = written
                             /\ ~writeIssued(effects', filePath)
                          \/ /\ writeIssued(effects', filePath)
                             /\ \E reply \in CodeReplies :
                                  /\ Len(cleanCodeContent(reply)) >= MIN_CONTENT_LENGTH
                                  /\ fs' \in {fs, writeFile(fs, filePath, cleanCodeContent(reply))})]_vars

C9_WarnedAndKept ==
    /\ pc = "step" /\ Len(out) >= 2
    /\ out[1].text = "src/x.ts"
    /\ tooShortWarned(out)
    /\ ~writeIssued(effects, rootDir \o "/src/x.ts")
    /\ fs[rootDir \o "/src/x.ts"] = WithX[rootDir \o "/src/x.ts"]

\* a step with a malformed target is about to be handled
handlesMalformedTarget ==
    /\ pc = "handle"
    /\ step.type \in {"create_file", "edit_file", "insert_code"}
    /\ ~falsy(step.target) /\ isMalformedTarget(step.target)

\* C10: a step whose target holds " - " or is longer than 200 characters is
\* skipped with a diagnostic: no writeFile is issued and the workspace is as
\* it was, whatever the type of the step.
C10_MalformedTargetSkipped ==
    [][signalled \/ (handlesMalformedTarget
                       => /\ \E n \in 1..Len(out') : out'[n].kind = "Invalid target path detected:"
                          /\ ~writeIssued(effects', filePath)
                          /\ fs' = fs /\ written' = written)]_vars

\* a create_file step wrote a file whose name holds the bled description
C10_GarbagePathWritten ==
    /\ fileExists(fs, rootDir \o "/src/a.ts - entry")
    /\ out[Len(out)] = Line("Created:", "src/a.ts - entry")

\* an edit_file or insert_code step whose target file does not exist is
\* about to be handled
missingTargetFile ==
    /\ pc = "handle"
    /\ step.type \in {"edit_file", "insert_code"}
    /\ ~falsy(step.target)
    /\ filePath \notin DOMAIN fs

callsOf(calls, op) == SelectSeq(calls, LAMBDA c : c.op = op)

\* one writeFile of the target, no call of the model, and the file, if the
\* write went through, holds the code block and nothing else
createdFromCodeBlock ==
    /\ callsOf(effects', "writeFile") = <<Call("writeFile", filePath)>>
    /\ callsOf(effects', "streamComplete") = <<>>
    /\ fs' \in {fs, writeFile(fs, filePath, step.codeBlock)}
    /\ out'[Len(out')].kind = "Created:" => fs' = writeFile(fs, filePath, step.codeBlock)
    /\ out'[Len(out')].kind \in {"Created:", "Failed:"}

skippedWith(diagnostics) ==
    /\ \E n \in 1..Len(out') : out'[n].kind \in diagnostics
    /\ callsOf(effects', "writeFile") = <<>>
    /\ callsOf(effects', "streamComplete") = <<>>
    /\ fs' = fs /\ written' = written

progressLine(k) == Line("Step", IF falsy(steps[k].target) THEN "" ELSE steps[k].target)

\* every call of the sequence is made on behalf of step k
callsOfStep(calls, k) ==
    \A n \in 1..Len(calls) :
        calls[n].arg \in {rootDir \o "/" \o steps[k].target, steps[k].target,
                          "create", "edit"}

\* C12: the steps are taken in list order, one at a time.  A side effect
\* (LLM call, file read, write or open, command) is issued only by the handler
\* of the step whose progress line was the last one emitted, and that line is
\* emitted only when the handler of the step before it has returned or
\* thrown, with all of its side effects made.
C12_ProgressLineBeforeSideEffects ==
    [][signalled \/ (/\ (pc = "step" /\ stepIdx <= Len(steps))
                          => /\ pc' = "handle" /\ stepIdx' = stepIdx
                             /\ out' = <<progressLine(stepIdx)>>
                             /\ fs' = fs /\ written' = written
                             /\ stepIdx > 1 => callsOfStep(effects, stepIdx - 1)
                     /\ (pc = "handle")
                          => /\ out[1] = progressLine(stepIdx)
                             /\ effects = <<>>
                             /\ out'[1] = progressLine(stepIdx)
                             /\ callsOfStep(effects', stepIdx)
                             /\ DOMAIN fs' \subseteq DOMAIN fs \cup {filePath}
                             /\ \A p \in DOMAIN fs \ {filePath} : fs'[p] = fs[p]
                             /\ stepIdx' = stepIdx + 1 /\ pc' = "step"
                     /\ (pc \in {"step", "handle"} /\ (fs' # fs \/ effects' \notin {effects, <<>>}))
                          => pc = "handle")]_vars

\* the second step is started after the first one wrote its file
C12_SecondStepAfterFirstWrite ==
    /\ pc = "handle" /\ stepIdx = 2 /\ attempt = 1
    /\ out = <<progressLine(2)>> /\ effects = <<>>
    /\ fileExists(fs, rootDir \o "/" \o steps[1].target)
    /\ rootDir \o "/" \o steps[1].target \in written

\* a call of fn has returned
hasReturned(fn) == pc = "returned" /\ applied.fn = fn

\* C13: detectPlanDocument on a text of fewer than 100 characters, the empty
\* text included, returns isPlanDocument = false and no steps, whatever
\* markers the text holds.
C13_ShortTextNeverPlan ==
    (hasReturned("detectPlanDocument") /\ Len(applied.content) < 100)
        => /\ returned.value.isPlanDocument = FALSE
           /\ returned.value.steps = <<>>
           /\ returned.value.format = "null"

\* a machine-format line filled to 99 characters is not a plan document
C13_MarkedTextBelowThreshold ==
    /\ hasReturned("detectPlanDocument")
    /\ Len(applied.content) = 99
    /\ startsWith(applied.content, "1. CREATE_FILE: src/a.ts | entry point")
    /\ ~returned.value.isPlanDocument

MachineVerbs == {"create_file", "edit_file", "run_command", "analyze"}

\* the argument is one line "N. VERB: target<sep>description" and nothing else
isMachineLine(sep) ==
    /\ hasReturned("parseSimplePlanSteps") /\ "lead" \in DOMAIN applied
    /\ applied.before = "" /\ applied.indent = ""
    /\ applied.lead \in {"1.", "12."}
    /\ toLowerCase(applied.verb) \in MachineVerbs
    /\ applied.colon \in {":", ": "}
    /\ applied.sep = sep

\* the one step that the line stands for
machineStep ==
    [id |-> 1, type |-> toLowerCase(applied.verb), target |-> applied.target,
     description |-> applied.description, codeBlock |-> undefined]

\* C14: the line N. VERB: target | description yields exactly the step
\* {id 1, the lower-case type of VERB, target, description}, and the line
\* written with " - " in place of "|" yields the same step.
C14_PipeAndDashAgree ==
    /\ (isMachineLine(" | ") \/ isMachineLine("|")) => returned.value = <<machineStep>>
    /\ isMachineLine(" - ") => returned.value = <<machineStep>>

C14_DashLineParsed ==
    /\ isMachineLine(" - ")
    /\ applied.content = "1. CREATE_FILE: src/a.ts - entry point"
    /\ returned.value = <<[id |-> 1, type |-> "create_file", target |-> "src/a.ts",
                           description |-> "entry point", codeBlock |-> undefined]>>

\* the drawn line matches (\d+\.|-|\*)\s*(VERB):\s*(.+)$ after its indent
matchesAfterIndent ==
    /\ applied.lead \in {"1.", "12.", "-", "*"}
    /\ toLowerCase(applied.verb) \in MachineVerbs
    /\ applied.colon \in {":", ": "}

\* the steps that the lines ahead of the drawn line stand for
stepsBefore == IF applied.before = "1. EDIT_FILE: src/x.ts | fix\n" THEN 1 ELSE 0

\* C20, as stated: a step is produced for exactly the lines that match
\* ^\s*(\d+\.|-|\*)\s*(VERB):\s*(.+)$, indented lines included.
C20_GrammarWithIndent ==
    (hasReturned("parseSimplePlanSteps") /\ "lead" \in DOMAIN applied)
        => Len(returned.value) = stepsBefore + (IF matchesAfterIndent THEN 1 ELSE 0)

\* C20, amended: a step is produced for exactly the lines that match
\* ^(\d+\.|-|\*)\s*(VERB):\s*(.+)$: the number or bullet is the first
\* character of the line, and an indented line produces no step.
C20_GrammarFromLineStart ==
    (hasReturned("parseSimplePlanSteps") /\ "lead" \in DOMAIN applied)
        => /\ Len(returned.value) =
                stepsBefore + (IF matchesAfterIndent /\ applied.indent = "" THEN 1 ELSE 0)
           /\ \A n \in 1..Len(returned.value) :
                /\ returned.value[n].id = n
                /\ returned.value[n].type \in MachineVerbs

C20_IndentedLineDropped ==
    /\ hasReturned("parseSimplePlanSteps")
    /\ applied.content = "  1. CREATE_FILE: src/a.ts | entry point"
    /\ returned.value = <<>>

\* the run_command step that a command line stands for under pattern 3
commandTargets(parsed) == [n \in 1..Len(parsed) |-> parsed[n].target]

allRunCommands(parsed) == \A n \in 1..Len(parsed) : parsed[n].type = "run_command"

\* C15: a headed step section with one fenced shell block of two command
\* lines yields exactly two run_command steps whose targets are the two
\* lines, in source order.
C15_HeadedShellBlockTwoSteps ==
    (hasReturned("parseTeddySpecSteps") /\ "header" \in DOMAIN applied
       /\ applied.header # "")
        => /\ Len(returned.value) = 2
           /\ allRunCommands(returned.value)
           /\ commandTargets(returned.value)
                = <<trim(applied.commands[1]), trim(applied.commands[2])>>

\* under a step header the block is one step: its target is the first line,
\* and the second line is the target of no step
C15_SecondCommandNotAStep ==
    /\ hasReturned("parseTeddySpecSteps") /\ "header" \in DOMAIN applied
    /\ applied.header = "## Step 1: Run the tests\n"
    /\ applied.commands = <<"npm install", "npm test">>
    /\ Len(returned.value) = 1
    /\ returned.value[1].type = "run_command"
    /\ returned.value[1].target = "npm install"

\* the argument is a numbered item with a reference to a file and a fenced
\* block that is not a shell block
isReferencingItem ==
    /\ hasReturned("parseTeddySpecSteps") /\ "reference" \in DOMAIN applied
    /\ applied.lang \notin {"bash", "sh", "shell"}

ModificationTitles == {"Update error handling", "Fix the null check", "Rename and move"}

\* C16: a numbered item with a fenced non-shell block and an inline file
\* reference whose title holds a modification verb yields one step, of type
\* edit_file, on the file referred to.
C16_ModificationTitleEditsReference ==
    (isReferencingItem /\ applied.title \in ModificationTitles)
        => returned.value =
             <<[id |-> 1, type |-> "edit_file", target |-> applied.reference,
                description |-> applied.title, codeBlock |-> applied.code]>>

C16_UpdateItemEditsFile ==
    /\ isReferencingItem
    /\ applied.title = "Update error handling" /\ applied.lang = "ts"
    /\ applied.reference = "src/x.ts"
    /\ Len(returned.value) = 1
    /\ returned.value[1].type = "edit_file"
    /\ returned.value[1].target = "src/x.ts"

linesOf(text) == split(text, "\n")

\* no line of the file begins with a word that opens an import line
hasNoImportLines(file) ==
    \A n \in 1..Len(linesOf(file)) :
        \A w \in {"import", "use", "from", "require", "#include"} :
            ~startsWith(linesOf(file)[n], w)

asksAfterImports(description) ==
    \/ includes(toLowerCase(description), "after import")
    \/ includes(toLowerCase(description), "after the import")

nonEmptyLines(text) == SelectSeq(linesOf(text), LAMBDA l : trim(l) # "")

\* C17: with a description that asks for insertion after the imports and a
\* file without import lines, the code block is put in front of the file and
\* the first non-empty line of the result is the first line of the block.
C17_NoImportsPrepends ==
    (hasReturned("insertCode") /\ asksAfterImports(applied.description)
       /\ hasNoImportLines(applied.existingContent))
        => /\ returned.value.newContent =
                applied.codeBlock \o "\n\n" \o applied.existingContent
           /\ nonEmptyLines(returned.value.newContent)[1] = linesOf(applied.codeBlock)[1]

C17_PrependedWithoutImports ==
    /\ hasReturned("insertCode")
    /\ applied.description = "Add the helper after imports"
    /\ applied.existingContent = "function f() {\n  g();\n}\n"
    /\ applied.codeBlock = "function log() {}"
    /\ returned.value.newContent = "function log() {}\n\nfunction f() {\n  g();\n}\n"
    /\ returned.value.insertionMethod = "inserted at top (no imports found)"

\* the first "{" at or after the first occurrence of the name, -1 when the
\* name or the brace is missing
openingBraceOf(file, name) ==
    IF indexOf(file, name) = -1 THEN -1
    ELSE indexOfFrom(file, "{", indexOf(file, name))

\* the positions at which the block opened at open is closed again
closingBraces(file, open) ==
    {j \in open..(Len(file) - 1) : braceCount(file, open, j) = 0}

\* the brace that matches the one at open
matchingBrace(file, open) ==
    CHOOSE j \in closingBraces(file, open) :
        \A k \in closingBraces(file, open) : j <= k

\* the description refers to a name whose block is in the file, opened and
\* closed
refersToClosedBlock ==
    /\ hasReturned("insertCode") /\ applied.name # ""
    /\ openingBraceOf(applied.existingContent, applied.name) # -1
    /\ closingBraces(applied.existingContent,
                     openingBraceOf(applied.existingContent, applied.name)) # {}

blockInsertedAfter(file, close, code, newContent) ==
    /\ newContent = slice(file, 0, close + 1) \o "\n\n" \o code
                      \o sliceFrom(file, close + 1)
    /\ braceCount(newContent, 0, close) = braceCount(file, 0, close)

\* C18: for a description "after <name>", the block is inserted immediately
\* after the closing brace that matches the first "{" at or after the name,
\* where the brace count of the file is what it was before that "{".
C18_InsertedAfterMatchingBrace ==
    refersToClosedBlock
        => blockInsertedAfter(
             applied.existingContent,
             matchingBrace(applied.existingContent,
                           openingBraceOf(applied.existingContent, applied.name)),
             applied.codeBlock, returned.value.newContent)

\* the name handleError is in the file, and the block went to the end of it
C18_MixedCaseNameNotFound ==
    /\ hasReturned("insertCode")
    /\ applied.description = "Add a handler after handleError"
    /\ applied.existingContent = "function handleError(e) {\n  log(e);\n}\nmain();\n"
    /\ applied.codeBlock = "function log() {}"
    /\ returned.value.newContent =
         "function handleError(e) {\n  log(e);\n}\nmain();\n\n\nfunction log() {}"
    /\ returned.value.insertionMethod = "appended (reference not found)"

\* the text fragments of a turn, in order
fragmentsOf(content) ==
    IF content.kind = "string" THEN <<content.text>>
    ELSE IF content.kind = "none" THEN <<>>
    ELSE LET texts == SelectSeq(content.parts, LAMBDA part : part.type = "text")
         IN  [n \in 1..Len(texts) |-> texts[n].text]

\* the fragments with a blank line between one and the next
RECURSIVE blankLineJoined(_)
blankLineJoined(fragments) ==
    IF Len(fragments) = 0 THEN ""
    ELSE IF Len(fragments) = 1 THEN fragments[1]
    ELSE blankLineJoined(SubSeq(fragments, 1, Len(fragments) - 1))
           \o "\n\n" \o fragments[Len(fragments)]

extractionOf(fragments, value) ==
    IF Len(fragments) = 1
    THEN /\ value.contextContent = ""
         /\ value.userInstruction = fragments[1]
         /\ value.fullContent = fragments[1]
    ELSE /\ value.contextContent =
              blankLineJoined(SubSeq(fragments, 1, Len(fragments) - 1))
         /\ value.userInstruction = fragments[Len(fragments)]
         /\ value.fullContent =
              value.contextContent \o "\n\n" \o value.userInstruction

\* C19: one text fragment is the instruction and the full content, with no
\* context; of k >= 2 fragments the first k-1, joined by blank lines, are
\* the context, the last is the instruction, and the full content is the
\* context, a blank line, and the instruction.
C19_ContextAndInstruction ==
    (hasReturned("extractTextContent")
       /\ Len(fragmentsOf(applied.message.content)) >= 1)
        => extractionOf(fragmentsOf(applied.message.content), returned.value)

C19_ThreeFragmentsSplit ==
    /\ hasReturned("extractTextContent")
    /\ applied.message.content =
         ArrayContent(<<TextPart("## Step 1: Update\n\nbody"), ImagePart,
                        TextPart("implement the steps above")>>)
    /\ returned.value.contextContent = "## Step 1: Update\n\nbody"
    /\ returned.value.userInstruction = "implement the steps above"

\* a step of the plan is started: its progress line is yielded and its
\* handler is entered
stepStarted == pc = "step" /\ pc' = "handle"

\* C21, as stated: once the abort condition has been signalled, the pipeline
\* starts no further step.
C21_NoStepAfterAbort == [][aborted => ~stepStarted]_vars

\* a step of the second attempt is under way although the cancellation was
\* signalled no later than in the first attempt
C21_StepRunsAfterAbort ==
    /\ aborted
    /\ attempt = MaxAbortAttempt + 1
    /\ pc = "handle"
    /\ stepIdx = 1

\* the content of a target of the verification, "" when the file is absent
contentOf(target) == readOrEmpty(fs, rootDir \o "/" \o target)

\* the executeSteps of an attempt begins, or has just ended
attemptBegins == pc = "loop" /\ pc' = "step"
attemptVerified == pc = "verify" /\ pc' # "verify"
retryBegins == attemptBegins /\ attempt' > 1

\* a completed snapshot has the before content of the snapshot it completes
\* and, as after content, the content of the file when the attempt ended
completedFromNow ==
    /\ Len(completedSnapshots') = Len(snapshots)
    /\ \A n \in 1..Len(snapshots) :
         /\ completedSnapshots'[n].target = snapshots[n].target
         /\ completedSnapshots'[n].beforeContent = snapshots[n].beforeContent
         /\ completedSnapshots'[n].afterContent = contentOf(snapshots[n].target)

\* the before contents are the contents of the files now
beforeIsCurrent ==
    \A n \in 1..Len(snapshots) :
        snapshots[n].beforeContent = contentOf(snapshots[n].target)

\* C22, as stated: in every attempt, the first and every retry, the before
\* content of each snapshot is the content of the file immediately before
\* the execution of that attempt, and the after content is its content
\* immediately after it.
C22_SnapshotsOfEachAttempt ==
    [][/\ attemptBegins => beforeIsCurrent
       /\ attemptVerified => completedFromNow]_vars

\* C22: the before contents are read once, ahead of the first attempt: in
\* the first attempt they are the contents immediately before the
\* execution, every later attempt completes the same before snapshots, and
\* in every attempt the after content is the content of the file
\* immediately after the execution of that attempt.
C22_BeforeContentOfFirstAttempt ==
    [][/\ (attemptBegins /\ attempt' = 1) => beforeIsCurrent
       /\ pc # "snapshots" => snapshots' = snapshots
       /\ attemptVerified => completedFromNow]_vars

\* a retry is about to execute with a before snapshot that is no longer
\* the content of the file
C22_RetryWithStaleBefore ==
    /\ pc = "step" /\ attempt = 2 /\ stepIdx = 1
    /\ Len(snapshots) > 0
    /\ snapshots[1].beforeContent # contentOf(snapshots[1].target)

\* the verification loop is about to make its first attempt: the snapshots
\* have been captured and the criteria derived, nothing has been executed
analysed == pc = "loop" /\ attempt = 0

stepTargets(types) ==
    {steps[i].target : i \in {j \in 1..Len(steps) :
        steps[j].type \in types /\ ~falsy(steps[j].target)}}

snapshotTargets == {snapshots[n].target : n \in 1..Len(snapshots)}

AllTypes == {"create_file", "edit_file", "insert_code", "run_command", "analyze"}

\* the files read for the verification of the attempt just verified
verifiedTargets == {completedSnapshots[n].target : n \in 1..Len(completedSnapshots)}

\* C24, as stated: in every attempt the files read for verification are
\* targets of the steps executed in that attempt.
C24_VerifiesOnlyExecutedTargets ==
    Len(completedSnapshots) > 0 => verifiedTargets \subseteq stepTargets(AllTypes)

\* C24: in every attempt the files read for verification are the files of
\* the snapshots captured before the first attempt, which are the targets
\* of the edit_file and insert_code steps of the initial step list; the
\* steps of the first attempt have them as targets, regenerated steps need
\* not.
C24_VerifiesInitialTargets ==
    [][/\ pc # "snapshots" => snapshotTargets' = snapshotTargets
       /\ attemptVerified =>
            /\ verifiedTargets' = snapshotTargets
            /\ attempt = 1 =>
                 snapshotTargets = stepTargets({"edit_file", "insert_code"})]_vars

\* a retry whose steps do not target the file read for its verification
C24_VerifiedFileNotATarget ==
    /\ attempt = 2
    /\ Len(completedSnapshots) > 0
    /\ ~(verifiedTargets \subseteq stepTargets(AllTypes))

hasSpace(target) == ~falsy(target) /\ includes(target, " ")

regenerated == pc = "regenerate" /\ pc' = "loop"

\* the steps handed back are the parsed steps of some reply, those with a
\* space in the target given the target fallback instead
repairedWith(fallback) ==
    \E response \in RegenReplies :
        LET parsed == valueAt(parsedStepsOf, response)
        IN  /\ Len(steps') = Len(parsed)
            /\ \A i \in 1..Len(parsed) :
                 steps'[i] = IF hasSpace(parsed[i].target)
                             THEN [parsed[i] EXCEPT !.target = fallback]
                             ELSE parsed[i]

\* C25, as stated: after the regeneration no step has a target with a space
\* in it; every parsed target that had one is replaced by the first file of
\* the snapshot set, a file the task targets.
C25_RepairedToTaskFile ==
    [][regenerated =>
         /\ \A i \in 1..Len(steps') : ~hasSpace(steps'[i].target)
         /\ Len(snapshots) > 0
         /\ repairedWith(snapshots[1].target)]_vars

\* C25: after the regeneration every parsed target that had a space in it
\* is replaced by the primary file, which is the first file of the snapshot
\* set, or the word "unknown" when the snapshot set is empty; no target has
\* a space in it unless the primary file has one.
C25_RepairedToPrimaryFile ==
    [][regenerated =>
         LET primary == IF Len(snapshots) > 0 THEN snapshots[1].target
                        ELSE "unknown"
         IN  /\ repairedWith(primary)
             /\ ~hasSpace(primary) =>
                  \A i \in 1..Len(steps') : ~hasSpace(steps'[i].target)]_vars

\* a regenerated command has been given the target "unknown": the task has
\* no snapshot
C25_RepairedToUnknown ==
    /\ regenCalls > 0 /\ pc = "loop"
    /\ snapshots = <<>>
    /\ \E i \in 1..Len(steps) : steps[i].target = "unknown"

\* the shell commands written in the plan lines and the shell blocks of the
\* replies and the plan documents of the model
WrittenCommands == {"npm test"}

commandsRun ==
    {effects[n].arg : n \in {m \in 1..Len(effects) : effects[m].op = "runCommand"}}

\* C26, as stated: the target handed to runCommand, for a step of the
\* initial plan and for a regenerated step alike, is the shell command
\* written in the plan line or block.
C26_CommandsRunAsWritten == commandsRun \subseteq WrittenCommands

\* in a retry the path of the primary file is handed to runCommand
C26_FilePathRunAsCommand ==
    /\ attempt >= 2
    /\ Len(steps) = 1 /\ Len(snapshots) = 1
    /\ steps[1].type = "run_command"
    /\ commandsRun = {"src/x.ts"}
    /\ snapshots[1].target = "src/x.ts"

parserReturned ==
    hasReturned("parseTeddySpecSteps") \/ hasReturned("parseSimplePlanSteps")

stepsOfType(types) ==
    {i \in 1..Len(returned.value) : returned.value[i].type \in types}

\* C27, as stated: every step returned by parseTeddySpecSteps or
\* parseSimplePlanSteps whose type is not analyze has a defined, non-empty
\* target.
C27_TargetPresent ==
    parserReturned =>
        \A i \in stepsOfType({"create_file", "edit_file", "insert_code", "run_command"}) :
            ~falsy(returned.value[i].target)

\* the numbered item drawn refers to no file, has a modification title and a
\* block from which no target is inferred
isUntargetedModification ==
    /\ "title" \in DOMAIN applied /\ "reference" \notin DOMAIN applied
    /\ applied.title \in ModificationTitles
    /\ applied.lang \notin {"bash", "sh", "shell"}
    /\ falsy(inferTargetFromCode(applied.code, applied.lang))

\* C27: every step returned by parseSimplePlanSteps has a target that is a
\* string, empty when nothing stands where the target is expected; every
\* insert_code step returned by parseTeddySpecSteps has a non-empty target,
\* every run_command step has a target that is a string, empty when the
\* shell block is empty, and an edit_file step has no target exactly when
\* it comes from a numbered item with a modification title that refers to
\* no file and whose block lets no target be inferred.
C27_TargetPresentWhereGiven ==
    /\ hasReturned("parseSimplePlanSteps") =>
         /\ \A i \in 1..Len(returned.value) : returned.value[i].target # undefined
         /\ "lead" \in DOMAIN applied =>
              \A i \in 1..Len(returned.value) : returned.value[i].target # ""
    /\ hasReturned("parseTeddySpecSteps") =>
         /\ \A i \in stepsOfType({"insert_code", "create_file"}) :
              ~falsy(returned.value[i].target)
         /\ \A i \in stepsOfType({"run_command"}) :
              /\ returned.value[i].target # undefined
              /\ returned.value[i].target = "" => returned.value[i].codeBlock = ""
         /\ \A i \in stepsOfType({"edit_file"}) :
              falsy(returned.value[i].target) <=> isUntargetedModification

\* an edit_file step without target
C27_EditStepWithoutTarget ==
    /\ hasReturned("parseTeddySpecSteps")
    /\ isUntargetedModification
    /\ applied.title = "Update error handling" /\ applied.code = "f();"
    /\ Len(returned.value) = 1
    /\ returned.value[1].type = "edit_file"
    /\ returned.value[1].target = undefined

\* the argument is a plan text with one numbered item and one fenced block of
\* one line
hasOneLineBlock ==
    /\ hasReturned("parseTeddySpecSteps") /\ "code" \in DOMAIN applied
    /\ Len(linesOf(applied.code)) = 1

\* the steps derived from the fenced block of the argument
stepsOfBlock ==
    {i \in 1..Len(returned.value) : returned.value[i].codeBlock = applied.code}

\* C28, as stated: a fenced block gives rise to steps from at most one of
\* the four patterns; a block of one line, from which each pattern derives
\* one step at most, therefore gives rise to one step at most.
C28_BlockClaimedOnce == hasOneLineBlock => Cardinality(stepsOfBlock) <= 1

\* the shell block of a numbered item is a step of pattern 3, described by
\* "Run: ", and a step of pattern 4, described by the title of the item
C28_ShellBlockDerivedTwice ==
    /\ hasOneLineBlock
    /\ applied.lang = "bash" /\ applied.title = "Add logging"
    /\ Len(returned.value) = 2
    /\ returned.value[1].description = "Run: " \o applied.code
    /\ returned.value[2].description = applied.title
    /\ returned.value[1].target = returned.value[2].target

\* the description of the insertion names a line
namesLine == hasReturned("insertCode") /\ "lineNum" \in DOMAIN applied

\* the lines of the file with the block put in before line n (counted from
\* 1), n brought into 1 .. number of lines + 1
blockBeforeLine(lines, n, block) ==
    LET at == IF n < 1 THEN 1 ELSE IF n > Len(lines) + 1 THEN Len(lines) + 1 ELSE n
    IN  SubSeq(lines, 1, at - 1) \o <<block>> \o SubSeq(lines, at, Len(lines))

\* C29, as stated: for every line number N >= 0 named in the description
\* the block is inserted immediately before line N of the file, before the
\* first line when N is below the file and after the last line when it is
\* beyond it, and the lines of the file keep their order.
C29_InsertedBeforeNamedLine ==
    namesLine =>
        returned.value.newContent =
            join(blockBeforeLine(linesOf(applied.existingContent), applied.lineNum,
                                 applied.codeBlock), "\n")

\* with "line 0" the block is put before the last line of the file
C29_LineZeroBeforeLastLine ==
    /\ namesLine /\ applied.lineNum = 0
    /\ applied.existingContent = "foo;\nbar;\n"
    /\ applied.codeBlock = "function log() {}"
    /\ returned.value.newContent = "foo;\nbar;\nfunction log() {}\n"

\* C29: for every line number N >= 1 named in the description the block is
\* inserted immediately before line N of the file, after the last line when
\* N is beyond the file, and the lines of the file keep their order; with
\* N = 0 the block is inserted before the last of the lines that the split
\* of the file at its newlines gives.
C29_InsertedBeforeLineFromOne ==
    namesLine =>
        LET lines == linesOf(applied.existingContent)
        IN  returned.value.newContent =
              join(blockBeforeLine(lines,
                                   IF applied.lineNum >= 1 THEN applied.lineNum
                                   ELSE Len(lines),
                                   applied.codeBlock), "\n")

\* line 2 of a file of two lines: the block stands between them
C29_BlockBeforeSecondLine ==
    /\ namesLine /\ applied.lineNum = 2
    /\ applied.existingContent = "foo;\nbar;\n"
    /\ applied.codeBlock = "function log() {}"
    /\ returned.value.newContent = "foo;\nfunction log() {}\nbar;\n"

Separators == {"", "\n", "\n\n"}

\* new is old with the block, a separator before it and a separator after
\* it put in at one position; the block and the separators taken out again
\* give old
isInsertionInto(old, block, new) ==
    \E at \in 0..Len(old) : \E sepBefore, sepAfter \in Separators :
        new = slice(old, 0, at) \o sepBefore \o block \o sepAfter \o sliceFrom(old, at)

\* handleInsertCode has run on the drawn step
insertPath == rootDir \o "/" \o InsertTarget

insertHandled == pc = "step" /\ applied.fn = "handleInsertCode"

writesOf(path) ==
    {n \in 1..Len(effects) : effects[n] = Call("writeFile", path)}

\* C30: for an insert_code step on an existing file, whichever locator
\* fires, the content written is the old content with the code block and
\* separators inserted at one position, and exactly one writeFile is issued
\* for the target; the same holds of the content that insertCode returns.
C30_InsertionKeepsExistingText ==
    /\ insertHandled =>
         /\ Cardinality(writesOf(insertPath)) = 1
         /\ \A n \in 1..Len(effects) :
              effects[n].op = "writeFile" => effects[n].arg = insertPath
         /\ IF \E n \in 1..Len(effects) : effects[n].op = "openFile"
            THEN isInsertionInto(applied.existingContent, applied.codeBlock,
                                 fs[insertPath])
            ELSE fs[insertPath] = applied.existingContent
    /\ hasReturned("insertCode") =>
         isInsertionInto(applied.existingContent, applied.codeBlock,
                         returned.value.newContent)

\* a block written inside a function: the old text stands on both sides
C30_WrittenInsideFunction ==
    /\ insertHandled
    /\ applied.description = "Add a guard in the f function"
    /\ applied.existingContent = "function f() {\n  g();\n}\n"
    /\ applied.codeBlock = "if (ok) {"
    /\ fs[insertPath] = "function f() {\nif (ok) {\n  g();\n}\n"
    /\ Cardinality(writesOf(insertPath)) = 1



=============================================================================
